---- MODULE Spec2Model ----
(***************************************************************************)
(* Model of the Vectric Lua language-assistance extension                  *)
(* (src/src/extension.ts, second revision, lines 424-1557): the lexical    *)
(* context classifier getCompletionContext, the backward type inferrer     *)
(* inferVariableType, getClassWithInheritance and the three providers.     *)
(*                                                                         *)
(* Text is modelled as a sequence of tokens.  A token is a maximal run of  *)
(* word characters (\w+), the token "sp" (a maximal run of whitespace) or  *)
(* one punctuation character.  No two word tokens are adjacent and no two  *)
(* "sp" tokens are adjacent, so every regular expression of the source,    *)
(* whose atoms all begin and end at token borders, is run token by token.  *)
(***************************************************************************)
EXTENDS Integers, Sequences, FiniteSets, TLC

(* const x = v; F(x): v is evaluated once and F reads its value. *)
Let(v, F(_)) == CHOOSE out \in {F(x) : x \in {v}} : TRUE

null == "null"

(***************************************************************************)
(* Lexical classes.                                                        *)
(***************************************************************************)
Punct == {"sp", "(", ")", ",", "=", ".", ":", "<", ">", "!", "-", "\"", "'", ";"}

Numerals == {"0", "1", "2", "5", "10"}

(* String.prototype.toLowerCase on the words that have an upper-case letter *)
lowerCase ==
    [A |-> "a", B |-> "b", C |-> "c", D |-> "d", E |-> "e", U |-> "u", F |-> "f", G |-> "g", H |-> "h",
     M |-> "m", N |-> "n", P |-> "p", Q |-> "q", R |-> "r", S |-> "s", T |-> "t", K1 |-> "k1",
     POSITION |-> "position", End |-> "end", Number |-> "number"]

UpperWords == DOMAIN lowerCase

toLowerCase(w) == IF w \in DOMAIN lowerCase THEN lowerCase[w] ELSE w

(***************************************************************************)
(* Regular expressions: abstract syntax.                                   *)
(***************************************************************************)
In(S) == [k |-> "in", set |-> S]
NotIn(S) == [k |-> "notin", set |-> S]
Tok(t) == In({t})
W == NotIn(Punct)
Dot == NotIn({})
Sp == In({"sp"})
Eol == [k |-> "eol"]
Cat(parts) == [k |-> "cat", parts |-> parts]
Alt(parts) == [k |-> "alt", parts |-> parts]
Star(r) == [k |-> "star", r |-> r]
Opt(r) == [k |-> "opt", r |-> r]
Cap(n, r) == [k |-> "cap", n |-> n, r |-> r]
SpStar == Opt(Sp)
DotStar == Star(Dot)

NoCaps == << <<>>, <<>> >>

(***************************************************************************)
(* Step(re, s, from): the matches of re in s that continue a match of the  *)
(* set from.  A match is <<end, captures>>: the number of tokens consumed  *)
(* and the texts of the capture groups.  The operand of a star is a token  *)
(* class, as everywhere in the source.                                     *)
(***************************************************************************)
Accepts(class, t) == IF class.k = "in" THEN t \in class.set ELSE t \notin class.set

RECURSIVE Step(_, _, _)
RECURSIVE StepAll(_, _, _, _)

StepAll(parts, n, s, from) ==
    IF n > Len(parts) \/ from = {} THEN from
    ELSE Let(Step(parts[n], s, from), LAMBDA next : StepAll(parts, n + 1, s, next))

Step(re, s, from) ==
    CASE re.k \in {"in", "notin"} ->
           {<<m[1] + 1, m[2]>> : m \in {m \in from : m[1] < Len(s) /\ Accepts(re, s[m[1] + 1])}}
      [] re.k = "eol" -> {m \in from : m[1] = Len(s)}
      [] re.k = "cat" -> StepAll(re.parts, 1, s, from)
      [] re.k = "alt" -> UNION {Step(re.parts[n], s, from) : n \in 1..Len(re.parts)}
      [] re.k = "star" ->
           UNION {{<<q, m[2]>> : q \in {q \in m[1]..Len(s) :
                                          \A n \in (m[1] + 1)..q : Accepts(re.r, s[n])}} : m \in from}
      [] re.k = "opt" -> from \cup Step(re.r, s, from)
      [] re.k = "cap" ->
           UNION {{<<e[1], [e[2] EXCEPT ![re.n] = SubSeq(s, m[1] + 1, e[1])]>> :
                     e \in Step(re.r, s, {m})} : m \in from}

MatchesAt(re, s, i) == Step(re, s, {<<i, NoCaps>>})

NoMatch == [found |-> FALSE, index |-> 0, end |-> 0, caps |-> NoCaps]

(* String.prototype.match / RegExp.prototype.exec without the g flag: the  *)
(* match at the leftmost start, the longest one there (the quantifiers are *)
(* greedy).                                                                *)
Match(re, s) ==
    Let(<<re, s>>, LAMBDA a :
    Let({i \in 0..Len(a[2]) : MatchesAt(a[1], a[2], i) # {}}, LAMBDA starts :
      IF starts = {} THEN NoMatch
      ELSE Let(CHOOSE i \in starts : \A j \in starts : i <= j, LAMBDA index :
           Let(MatchesAt(a[1], a[2], index), LAMBDA found :
           Let(CHOOSE m \in found : \A o \in found : m[1] >= o[1], LAMBDA m :
             [found |-> TRUE, index |-> index, end |-> m[1], caps |-> m[2]])))))

(* RegExp.prototype.test *)
Test(re, s) == Let(<<re, s>>, LAMBDA a : \E i \in 0..Len(a[2]) : MatchesAt(a[1], a[2], i) # {})

(* The text of a capture group that matched one word, "" when it is empty. *)
Group(m, n) == IF Len(m.caps[n]) = 0 THEN "" ELSE m.caps[n][1]

(***************************************************************************)
(* The API catalog (ApiFunction, ApiClass).  An optional field is a        *)
(* sequence that is empty when the field is absent; a string is a text.    *)
(***************************************************************************)
Param(label, documentation) == [label |-> label, documentation |-> documentation]

Signature(label, parameters, returns) ==
    [label |-> label, parameters |-> parameters, returns |-> returns]

Function(name, signature) == [name |-> name, signature |-> signature]

Property(name, detail) == [name |-> name, detail |-> detail]

Constant(name, value) == [name |-> name, value |-> value]

Constructor(label, parameters) == [label |-> label, parameters |-> parameters]

Class(name, detail, constructors, properties, methods, constants) ==
    [name |-> name, detail |-> detail, constructors |-> constructors,
     properties |-> properties, methods |-> methods, constants |-> constants]

(* Array.prototype.find on the name field: the first element of that name, *)
(* as a sequence of zero or one element.                                   *)
FindByName(arr, name) ==
    Let(<<arr, name>>, LAMBDA a :
    Let({i \in 1..Len(a[1]) : a[1][i].name = a[2]}, LAMBDA hits :
      IF hits = {} THEN << >>
      ELSE << a[1][CHOOSE i \in hits : \A j \in hits : i <= j] >>))

(* String.prototype.split(',')[0].trim() *)
RECURSIVE TrimLeft(_)
TrimLeft(t) == IF Len(t) > 0 /\ Head(t) = "sp" THEN TrimLeft(Tail(t)) ELSE t

RECURSIVE TrimRight(_)
TrimRight(t) ==
    IF Len(t) > 0 /\ t[Len(t)] = "sp" THEN TrimRight(SubSeq(t, 1, Len(t) - 1)) ELSE t

Trim(t) == TrimRight(TrimLeft(t))

RECURSIVE FirstCommaPart(_)
FirstCommaPart(t) ==
    IF Len(t) = 0 \/ Head(t) = "," THEN << >> ELSE <<Head(t)>> \o FirstCommaPart(Tail(t))

(* The return text taken whole, not split at the first comma. *)
WholeReturnType(returns) == Trim(returns)

FirstReturnType(returns) == Trim(FirstCommaPart(returns))

(* classes.find(c => c.name === text): a text equals a name when it is one *)
(* word token spelling the name.                                           *)
FindClassByText(classes, text) ==
    IF Len(text) = 1 THEN FindByName(classes, text[1]) ELSE << >>

(***************************************************************************)
(* inferVariableType: the regular expressions built from varName.          *)
(***************************************************************************)
notFirstVarLocal(v) ==
    Cat(<<Tok("local"), Sp, W, SpStar, Tok(","), SpStar, DotStar, Tok(v), DotStar, Tok("=")>>)

localAssignment(v) ==
    Cat(<<Tok("local"), Sp, Tok(v), SpStar, Opt(Cat(<<Tok(","), SpStar, W>>)), SpStar,
          Tok("="), SpStar, Cap(1, W), SpStar, Tok("(")>>)

notFirstVarAssign(v) ==
    Cat(<<W, SpStar, Tok(","), SpStar, DotStar, Tok(v), DotStar, Tok("=")>>)

\* the pattern with the keyword 'local' required in front
assignmentAfterLocal(v) == localAssignment(v)

assignment(v) ==
    Cat(<<Tok(v), SpStar, Opt(Cat(<<Tok(","), SpStar, W>>)), SpStar,
          Tok("="), SpStar, Cap(1, W), SpStar, Tok("(")>>)

propertyAssignment(v) ==
    Cat(<<Tok(v), SpStar, Tok("="), SpStar, Cap(1, W), Tok("."), Cap(2, W)>>)

notFirstVarFunc(v) ==
    Cat(<<Opt(Cat(<<Tok("local"), Sp>>)), W, SpStar, Tok(","), SpStar, DotStar, Tok(v),
          DotStar, Tok("=")>>)

functionAssignment(v) ==
    Cat(<<Opt(Cat(<<Tok("local"), Sp>>)), Tok(v), SpStar, Opt(Cat(<<Tok(","), SpStar, W>>)),
          SpStar, Tok("="), SpStar, Cap(1, W), SpStar, Tok("(")>>)

notFirstVar(v) ==
    Cat(<<Opt(Cat(<<Tok("local"), Sp>>)), W, SpStar, Tok(","), SpStar, DotStar, Tok(v),
          DotStar, Tok("=")>>)

methodAssignment(v) ==
    Cat(<<Opt(Cat(<<Tok("local"), Sp>>)), Tok(v), SpStar, Opt(Cat(<<Tok(","), SpStar, W>>)),
          SpStar, Tok("="), SpStar, Cap(1, W), Tok(":"), Cap(2, W), SpStar, Tok("(")>>)

\* the pattern for the keyword 'for' alone
declarationPatternLoop(v) == Cat(<<Tok("for"), Sp, Tok(v)>>)

declarationPattern(v) ==
    Cat(<<Alt(<<Tok("for"), Tok("function")>>), Sp, Tok(v)>>)

(***************************************************************************)
(* inferVariableType.  A result is a class name, null, or RangeError when  *)
(* the recursion exceeds the call stack of the engine (StackLimit frames). *)
(***************************************************************************)
RangeError == "RangeError"

SearchWindow == 100

StackLimit == 4

lineAt(document, lineNum) == document[lineNum + 1]

Max(a, b) == IF a >= b THEN a ELSE b

(* The window counted with the query line as one of its 100 lines. *)
searchStartInclusive(currentLine) == Max(0, currentLine - SearchWindow + 1)

searchStart(currentLine) == Max(0, currentLine - SearchWindow)

(* What one pattern of the loop body does with a line: return a class name *)
(* (or throw RangeError), continue with the line before, break, or leave   *)
(* the line to the next pattern.                                           *)
continue == "continue"

break == "break"

next == "next"

RECURSIVE inferVariableType(_, _, _, _, _, _)

(* Pattern 1: local varName = ClassName(...) *)
pattern1(line, varName, classes) ==
    LET localMatch == Match(localAssignment(varName), line)
    IN IF Test(notFirstVarLocal(varName), line) THEN continue
       ELSE IF localMatch.found /\ Len(FindByName(classes, Group(localMatch, 1))) > 0
       THEN Group(localMatch, 1)
       ELSE next

(* Pattern 2: varName = ClassName(...) *)
pattern2(line, varName, classes) ==
    LET assignMatch == Match(assignment(varName), line)
    IN IF Test(notFirstVarAssign(varName), line) THEN continue
       ELSE IF assignMatch.found /\ Len(FindByName(classes, Group(assignMatch, 1))) > 0
       THEN Group(assignMatch, 1)
       ELSE next

(* The type hint of the property, a known class or not. *)
propertyTypeAnyHint(classes, objectType, propertyName) ==
    IF objectType = null THEN next
    ELSE Let(FindByName(classes, objectType), LAMBDA cls :
      IF Len(cls) = 0 THEN next
      ELSE Let(FindByName(cls[1].properties, propertyName), LAMBDA property :
        IF Len(property) = 0 \/ Len(property[1].detail) # 1 THEN next
        ELSE property[1].detail[1]))

(* The known class named by the type hint of property propertyName of      *)
(* class objectType, next when a lookup fails.                             *)
propertyType(classes, objectType, propertyName) ==
    IF objectType = null THEN next
    ELSE Let(FindByName(classes, objectType), LAMBDA cls :
      IF Len(cls) = 0 THEN next
      ELSE Let(FindByName(cls[1].properties, propertyName), LAMBDA property :
        IF Len(property) = 0 THEN next
        ELSE IF Len(FindClassByText(classes, property[1].detail)) > 0
             THEN property[1].detail[1]
             ELSE next))

(* Pattern 3: varName = otherVar.PropertyName *)
pattern3(document, lineNum, varName, classes, globalFunctions, depth) ==
    LET propMatch == Match(propertyAssignment(varName), lineAt(document, lineNum))
    IN IF ~propMatch.found THEN next
       ELSE Let(inferVariableType(document, lineNum, Group(propMatch, 1),
                                  classes, globalFunctions, depth + 1), LAMBDA objectType :
         IF objectType = RangeError THEN RangeError
         ELSE propertyType(classes, objectType, Group(propMatch, 2)))

(* The first return type, the name of a known class or not. *)
returnTypeAnyName(classes, found) ==
    IF Len(found) = 0 \/ Len(found[1].signature) = 0 THEN next
    ELSE IF Len(found[1].signature[1].returns) = 0 THEN next
    ELSE Let(FirstReturnType(found[1].signature[1].returns), LAMBDA firstReturnType :
      IF Len(firstReturnType) = 1 THEN firstReturnType[1] ELSE next)

(* The known class returned first by a function or method, next when a     *)
(* lookup fails.                                                           *)
returnType(classes, found) ==
    IF Len(found) = 0 \/ Len(found[1].signature) = 0 THEN next
    ELSE IF Len(found[1].signature[1].returns) = 0 THEN next
    ELSE Let(FirstReturnType(found[1].signature[1].returns), LAMBDA firstReturnType :
      IF Len(FindClassByText(classes, firstReturnType)) > 0 THEN firstReturnType[1]
      ELSE next)

(* Pattern 4 ending the search at a call that gives no known class. *)
pattern4EndingSearch(line, varName, classes, globalFunctions) ==
    LET funcMatch == Match(functionAssignment(varName), line)
    IN IF Test(notFirstVarFunc(varName), line) THEN continue
       ELSE IF ~funcMatch.found THEN next
       ELSE Let(returnType(classes, FindByName(globalFunctions, Group(funcMatch, 1))),
                LAMBDA type : IF type = next THEN break ELSE type)

(* Pattern 4: varName = FunctionName(...) *)
pattern4(line, varName, classes, globalFunctions) ==
    LET funcMatch == Match(functionAssignment(varName), line)
    IN IF Test(notFirstVarFunc(varName), line) THEN continue
       ELSE IF ~funcMatch.found THEN next
       ELSE Let(FindByName(globalFunctions, Group(funcMatch, 1)),
                LAMBDA globalFunc : returnType(classes, globalFunc))

(* The return type of method methodName of class objectType. *)
methodReturnType(classes, objectType, methodName) ==
    IF objectType = null THEN next
    ELSE Let(FindByName(classes, objectType), LAMBDA cls :
      IF Len(cls) = 0 THEN next
      ELSE Let(FindByName(cls[1].methods, methodName),
               LAMBDA method : returnType(classes, method)))

(* Pattern 4b: varName = object:MethodName(...) *)
pattern4b(document, lineNum, varName, classes, globalFunctions, depth) ==
    LET methodMatch == Match(methodAssignment(varName), lineAt(document, lineNum))
    IN IF Test(notFirstVar(varName), lineAt(document, lineNum)) THEN continue
       ELSE IF ~methodMatch.found THEN next
       ELSE Let(inferVariableType(document, lineNum, Group(methodMatch, 1),
                                  classes, globalFunctions, depth + 1), LAMBDA objectType :
         IF objectType = RangeError THEN RangeError
         ELSE methodReturnType(classes, objectType, Group(methodMatch, 2)))

(* Pattern 5: for varName in ... or function varName(...) - stop searching; *)
(* otherwise the loop body ends and the loop goes on.                      *)
pattern5(line, varName) ==
    IF Test(declarationPattern(varName), line) THEN break ELSE continue

(* The body of the loop on one line: the patterns in the order of the      *)
(* source, the first one that does not leave the line to the next decides. *)
patterns(document, lineNum, varName, classes, globalFunctions, depth) ==
    << pattern1(lineAt(document, lineNum), varName, classes),
       pattern2(lineAt(document, lineNum), varName, classes),
       pattern3(document, lineNum, varName, classes, globalFunctions, depth),
       pattern4(lineAt(document, lineNum), varName, classes, globalFunctions),
       pattern4b(document, lineNum, varName, classes, globalFunctions, depth),
       pattern5(lineAt(document, lineNum), varName) >>

FirstDecided(results) ==
    results[CHOOSE i \in 1..Len(results) :
              results[i] # next /\ \A j \in 1..(i - 1) : results[j] = next]

(* The result of the loop from its outcomes <<lineNum, outcome>>: that of  *)
(* the first line, going backward, whose body does not continue; null      *)
(* after a break or when every line continues.                             *)
LastOutcome(outcomes) ==
    LET ended == {o \in outcomes : o[2] # continue}
        last == CHOOSE o \in ended : \A e \in ended : o[1] >= e[1]
    IN IF ended = {} THEN null
       ELSE IF last[2] = break THEN null ELSE last[2]

(* for (let lineNum = currentLine; lineNum >= searchStart; lineNum--) *)
searchLines(document, currentLine, start, varName, classes, globalFunctions, depth) ==
    Let({<<r[1], FirstDecided(r[2])>> :
           r \in {<<lineNum, patterns(document, lineNum, varName, classes, globalFunctions, depth)>> :
                    lineNum \in start..currentLine}}, LastOutcome)

(* The search running to the top of the buffer. *)
inferVariableTypeFromTop(document, currentLine, varName, classes, globalFunctions, depth) ==
    IF depth > StackLimit THEN RangeError
    ELSE searchLines(document, currentLine, 0, varName, classes, globalFunctions, depth)

inferVariableType(document, currentLine, varName, classes, globalFunctions, depth) ==
    IF depth > StackLimit THEN RangeError
    ELSE searchLines(document, currentLine, searchStart(currentLine), varName,
                     classes, globalFunctions, depth)

(***************************************************************************)
(* getCompletionContext.                                                   *)
(***************************************************************************)
luaBuiltInTypes == {"boolean", "number", "string", "function", "userdata", "thread", "table"}

luaKeywords ==
    {"and", "break", "do", "else", "elseif", "end", "false", "for", "function", "if", "in",
     "local", "nil", "not", "or", "repeat", "return", "then", "true", "until", "while"}

(* document.getWordRangeAtPosition(position): the word that touches the    *)
(* cursor, '' when there is none.  character counts the tokens before the  *)
(* cursor.                                                                 *)
wordAtPosition(lineText, character) ==
    IF character >= 1 /\ lineText[character] \notin Punct THEN lineText[character]
    ELSE IF character < Len(lineText) /\ lineText[character + 1] \notin Punct
         THEN lineText[character + 1]
         ELSE ""

localDeclaration == Cat(<<Tok("local"), Sp, Opt(W), Eol>>)

Comparison == Cat(<<In({"=", "<", ">", "!"}), Opt(Tok("="))>>)

Quote == In({"\"", "'"})

keywordContextPatterns ==
    << Cat(<<Comparison, SpStar, In(Numerals), Sp, Opt(W), Eol>>),
       Cat(<<Comparison, SpStar, Quote, Star(NotIn({"\"", "'"})), Quote, Sp, Opt(W), Eol>>),
       Cat(<<Comparison, SpStar, W, Sp, Opt(W), Eol>>),
       Cat(<<In({"and", "or", "not"}), Sp, Opt(W), Eol>>),
       Cat(<<Tok(")"), Sp, Opt(W), Eol>>) >>

dotMatchPattern == Cat(<<Cap(1, W), Tok("."), Cap(2, Opt(W)), Eol>>)

colonMatchPattern == Cat(<<Cap(1, W), Tok(":"), Cap(2, Opt(W)), Eol>>)

functionNamePattern == Cat(<<Cap(1, W), Eol>>)

\* a colon, optional whitespace, a captured word
typePattern == Cat(<<Tok(":"), SpStar, Cap(1, W)>>)

\* constructor.label.match: the first parenthesised group without a closing parenthesis inside
labelPattern == Cat(<<Tok("("), Star(NotIn({")"})), Tok(")")>>)

\* param.documentation.match: optional colon, a word, then a dash or the end
docTypePattern ==
    Cat(<<Opt(Cat(<<Tok(":"), SpStar>>)), Cap(1, W), Alt(<<Cat(<<SpStar, Tok("-")>>), Eol>>)>>)

(* The scan that goes on to the leftmost unmatched opening parenthesis. *)
RECURSIVE scanParenOutermost(_, _, _)
scanParenOutermost(text, i, depth) ==
    IF i < 1 THEN -1
    ELSE IF text[i] = ")" THEN scanParenOutermost(text, i - 1, depth + 1)
    ELSE IF text[i] = "("
         THEN IF depth = 0
              THEN LET outer == scanParenOutermost(text, i - 1, 0)
                   IN IF outer >= 0 THEN outer ELSE i - 1
              ELSE scanParenOutermost(text, i - 1, depth - 1)
         ELSE scanParenOutermost(text, i - 1, depth)

(* The scan for the last unmatched opening parenthesis: the number of      *)
(* tokens before it, -1 when there is none.                                *)
RECURSIVE scanParen(_, _, _)
scanParen(text, i, depth) ==
    IF i < 1 THEN -1
    ELSE IF text[i] = ")" THEN scanParen(text, i - 1, depth + 1)
    ELSE IF text[i] = "("
         THEN IF depth = 0 THEN i - 1 ELSE scanParen(text, i - 1, depth - 1)
         ELSE scanParen(text, i - 1, depth)

lastFunctionStart(textBeforeCursor) == scanParen(textBeforeCursor, Len(textBeforeCursor), 0)

(* The count of the commas outside every closed nested call. *)
commaCountTopLevel(afterParen) ==
    Cardinality({i \in 1..Len(afterParen) :
                   /\ afterParen[i] = ","
                   /\ Cardinality({j \in 1..i : afterParen[j] = "("})
                        = Cardinality({j \in 1..i : afterParen[j] = ")"})})

(* (afterParen.match(/,/g) || []).length *)
commaCount(afterParen) == Cardinality({i \in 1..Len(afterParen) : afterParen[i] = ","})

(* String.prototype.split(',') followed by map(p => p.trim()) *)
RECURSIVE SplitComma(_, _)
SplitComma(t, cur) ==
    IF Len(t) = 0 THEN <<Trim(cur)>>
    ELSE IF Head(t) = "," THEN <<Trim(cur)>> \o SplitComma(Tail(t), << >>)
    ELSE SplitComma(Tail(t), Append(cur, Head(t)))

Context(type, objectName, className, prefix, functionName, parameterIndex) ==
    [type |-> type, objectName |-> objectName, className |-> className, prefix |-> prefix,
     functionName |-> functionName, parameterIndex |-> parameterIndex]

keywordContext == Context("keyword", null, null, "", null, -1)

identifierContext == Context("identifier", null, null, "", null, -1)

(* An exception thrown out of getCompletionContext. *)
thrownContext == Context(RangeError, null, null, "", null, -1)

(* The keyword guard: built-in type, keyword, 'local' declaration, and the *)
(* keyword-likely patterns.                                                *)
keywordGuard(textBeforeCursor, currentWord) ==
    \/ toLowerCase(currentWord) \in luaBuiltInTypes
    \/ toLowerCase(currentWord) \in luaKeywords
    \/ Test(localDeclaration, textBeforeCursor)
    \/ \E n \in 1..Len(keywordContextPatterns) : Test(keywordContextPatterns[n], textBeforeCursor)

(* class constructor: the constructor chosen for commaCount *)
(* The last declared constructor with more parameters than count. *)
selectConstructorLastFit(constructors, count) ==
    LET fits == {i \in 1..Len(constructors) : Len(constructors[i].parameters) > count}
    IN IF fits = {} THEN constructors[1]
       ELSE constructors[CHOOSE i \in fits : \A j \in fits : i >= j]

selectConstructor(constructors, count) ==
    LET fits == {i \in 1..Len(constructors) : Len(constructors[i].parameters) > count}
    IN IF fits = {} THEN constructors[1]
       ELSE constructors[CHOOSE i \in fits : \A j \in fits : i <= j]

(* The expected type of parameter count of a constructor, null when none   *)
(* is extracted: from the parameter list of the label first.               *)
labelParameterType(constructor, count) ==
    Let(Match(labelPattern, constructor.label), LAMBDA labelMatch :
      IF ~labelMatch.found THEN null
      ELSE Let(SplitComma(SubSeq(constructor.label, labelMatch.index + 2, labelMatch.end - 1),
                          << >>), LAMBDA paramsList :
        IF count >= Len(paramsList) THEN null
        ELSE Let(Match(typePattern, paramsList[count + 1]), LAMBDA typeMatch :
          IF typeMatch.found THEN Group(typeMatch, 1) ELSE null)))

(* The expected type read from the label of the parameter before the      *)
(* label of the constructor.                                               *)
constructorParameterTypeOwnLabelFirst(constructor, count) ==
    Let(Match(typePattern, constructor.parameters[count + 1].label), LAMBDA labelTypeMatch :
      IF labelTypeMatch.found THEN Group(labelTypeMatch, 1)
      ELSE labelParameterType(constructor, count))

constructorParameterType(constructor, count) ==
    Let(labelParameterType(constructor, count), LAMBDA fromLabel :
      IF fromLabel # null THEN fromLabel
      ELSE Let(Match(typePattern, constructor.parameters[count + 1].label), LAMBDA labelTypeMatch :
        IF labelTypeMatch.found THEN Group(labelTypeMatch, 1)
        ELSE Let(Match(docTypePattern, constructor.parameters[count + 1].documentation),
                 LAMBDA docTypeMatch :
          IF docTypeMatch.found
             /\ (Group(docTypeMatch, 1) \in UpperWords
                 \/ Group(docTypeMatch, 1) \in {"number", "string", "boolean"})
          THEN Group(docTypeMatch, 1)
          ELSE null)))

(* The constructor branch with an argument index past the parameters     *)
(* taken as the last parameter.                                            *)
constructorContextClamped(functionName, afterParen, classes) ==
    Let(<<FindByName(classes, functionName), commaCount(afterParen)>>, LAMBDA a :
      IF Len(a[1]) = 0 \/ Len(a[1][1].constructors) = 0 THEN identifierContext
      ELSE Let(selectConstructor(a[1][1].constructors, a[2]), LAMBDA constructor :
        IF Len(constructor.parameters) = 0 THEN identifierContext
        ELSE Let(constructorParameterType(constructor,
                                          IF a[2] >= Len(constructor.parameters)
                                          THEN Len(constructor.parameters) - 1 ELSE a[2]),
                 LAMBDA expectedType :
          IF expectedType = null THEN identifierContext
          ELSE Context("function-parameter", null, expectedType, "", functionName, a[2]))))

(* The class-constructor branch of the call detection. *)
constructorContext(functionName, afterParen, classes) ==
    Let(<<FindByName(classes, functionName), commaCount(afterParen)>>, LAMBDA a :
      IF Len(a[1]) = 0 \/ Len(a[1][1].constructors) = 0 THEN identifierContext
      ELSE Let(selectConstructor(a[1][1].constructors, a[2]), LAMBDA constructor :
        IF a[2] >= Len(constructor.parameters) THEN identifierContext
        ELSE Let(constructorParameterType(constructor, a[2]), LAMBDA expectedType :
          IF expectedType = null THEN identifierContext
          ELSE Context("function-parameter", null, expectedType, "", functionName, a[2]))))

(* The global-function branch of the call detection. *)
functionCallContext(functionName, afterParen, classes, globalFunctions) ==
    Let(<<FindByName(globalFunctions, functionName), commaCount(afterParen)>>, LAMBDA a :
      IF Len(a[1]) = 0 \/ Len(a[1][1].signature) = 0
      THEN constructorContext(functionName, afterParen, classes)
      ELSE IF a[2] >= Len(a[1][1].signature[1].parameters)
      THEN constructorContext(functionName, afterParen, classes)
      ELSE Let(Match(typePattern, a[1][1].signature[1].parameters[a[2] + 1].documentation),
               LAMBDA typeMatch :
        IF ~typeMatch.found THEN constructorContext(functionName, afterParen, classes)
        ELSE Context("function-parameter", null, Group(typeMatch, 1), "", functionName, a[2])))

(* Inside function call parentheses: the innermost unclosed call. *)
callContext(textBeforeCursor, classes, globalFunctions) ==
    Let(<<textBeforeCursor, lastFunctionStart(textBeforeCursor)>>, LAMBDA a :
      IF a[2] < 0 THEN identifierContext
      ELSE Let(Match(functionNamePattern, SubSeq(a[1], 1, a[2])), LAMBDA functionNameMatch :
        IF ~functionNameMatch.found THEN identifierContext
        ELSE functionCallContext(Group(functionNameMatch, 1),
                                 SubSeq(a[1], a[2] + 2, Len(a[1])), classes, globalFunctions)))

(* The access context without the identifier as the fallback class name. *)
accessContextInferredOnly(type, m, document, line, classes, globalFunctions) ==
    Let(inferVariableType(document, line, Group(m, 1), classes, globalFunctions, 0),
        LAMBDA inferredType :
      IF inferredType = RangeError THEN thrownContext
      ELSE Context(type, Group(m, 1), inferredType, Group(m, 2), null, -1))

(* Member access (type = "member-access", pattern = dotMatchPattern) and   *)
(* method access (type = "method-access", pattern = colonMatchPattern).    *)
accessContext(type, m, document, line, classes, globalFunctions) ==
    Let(inferVariableType(document, line, Group(m, 1), classes, globalFunctions, 0),
        LAMBDA inferredType :
      IF inferredType = RangeError THEN thrownContext
      ELSE Context(type, Group(m, 1),
                   IF inferredType # null THEN inferredType ELSE Group(m, 1),
                   Group(m, 2), null, -1))

(* The classifier with the call detection tried before the accesses. *)
getCompletionContextCallFirst(document, line, character, classes, globalFunctions) ==
    Let(SubSeq(lineAt(document, line), 1, character), LAMBDA textBeforeCursor :
      IF keywordGuard(textBeforeCursor, wordAtPosition(lineAt(document, line), character))
      THEN keywordContext
      ELSE Let(callContext(textBeforeCursor, classes, globalFunctions), LAMBDA call :
        IF call.type = "function-parameter" THEN call
        ELSE Let(Match(dotMatchPattern, textBeforeCursor), LAMBDA dotMatch :
          IF dotMatch.found
          THEN accessContext("member-access", dotMatch, document, line, classes, globalFunctions)
          ELSE Let(Match(colonMatchPattern, textBeforeCursor), LAMBDA colonMatch :
            IF colonMatch.found
            THEN accessContext("method-access", colonMatch, document, line,
                               classes, globalFunctions)
            ELSE call))))

getCompletionContext(document, line, character, classes, globalFunctions) ==
    Let(SubSeq(lineAt(document, line), 1, character), LAMBDA textBeforeCursor :
      IF keywordGuard(textBeforeCursor, wordAtPosition(lineAt(document, line), character))
      THEN keywordContext
      ELSE Let(Match(dotMatchPattern, textBeforeCursor), LAMBDA dotMatch :
        IF dotMatch.found
        THEN accessContext("member-access", dotMatch, document, line, classes, globalFunctions)
        ELSE Let(Match(colonMatchPattern, textBeforeCursor), LAMBDA colonMatch :
          IF colonMatch.found
          THEN accessContext("method-access", colonMatch, document, line, classes, globalFunctions)
          ELSE callContext(textBeforeCursor, classes, globalFunctions))))

(***************************************************************************)
(* getClassWithInheritance, createSnippetFromSignature,                    *)
(* createMemberCompletions.                                                *)
(***************************************************************************)
findClassByName(classes, name) == FindByName(classes, name)

extendsPattern == Cat(<<Tok("extends"), Sp, Cap(1, W)>>)

(* The class thrown for: the recursion through the base classes exceeded   *)
(* the call stack.                                                         *)
thrownClass == Class(RangeError, << >>, << >>, << >>, << >>, << >>)

(* The merge with the members the base class declares itself, without the *)
(* members the base class inherits.                                        *)
getClassWithBaseOnly(cls, classes, depth) ==
    Let(Match(extendsPattern, cls.detail), LAMBDA extendsMatch :
      IF ~extendsMatch.found THEN cls
      ELSE Let(findClassByName(classes, Group(extendsMatch, 1)), LAMBDA baseClass :
        IF Len(baseClass) = 0 THEN cls
        ELSE [cls EXCEPT
                !.properties = baseClass[1].properties \o cls.properties,
                !.methods = baseClass[1].methods \o cls.methods,
                !.constants = baseClass[1].constants \o cls.constants]))

RECURSIVE getClassWithInheritance(_, _, _)
getClassWithInheritance(cls, classes, depth) ==
    IF depth > StackLimit THEN thrownClass
    ELSE Let(Match(extendsPattern, cls.detail), LAMBDA extendsMatch :
      IF ~extendsMatch.found THEN cls
      ELSE Let(findClassByName(classes, Group(extendsMatch, 1)), LAMBDA baseClass :
        IF Len(baseClass) = 0 THEN cls
        ELSE Let(getClassWithInheritance(baseClass[1], classes, depth + 1),
                 LAMBDA baseWithInheritance :
          IF baseWithInheritance.name = RangeError THEN thrownClass
          ELSE [cls EXCEPT
                  !.properties = baseWithInheritance.properties \o cls.properties,
                  !.methods = baseWithInheritance.methods \o cls.methods,
                  !.constants = baseWithInheritance.constants \o cls.constants])))

(* A completion item.  insertText is absent (<< >>), a plain text, or a    *)
(* snippet name(${1:label}, ...)$0 given by its name and its placeholders. *)
PlainText(name) == << [snippet |-> FALSE, name |-> <<name>>, placeholders |-> << >>] >>

Snippet(name, parameters) ==
    << [snippet |-> TRUE, name |-> name,
        placeholders |-> [i \in 1..Len(parameters) |-> parameters[i].label]] >>

Item(label, kind, insertText, sortText, preselect) ==
    [label |-> label, kind |-> kind, insertText |-> insertText, sortText |-> sortText,
     preselect |-> preselect]

RECURSIVE BeforeParen(_)
BeforeParen(t) ==
    IF Len(t) = 0 \/ Head(t) = "(" THEN << >> ELSE <<Head(t)>> \o BeforeParen(Tail(t))

createSnippetFromSignature(signature) == Snippet(BeforeParen(signature.label), signature.parameters)

createMemberCompletions(cls, memberType) ==
    CASE memberType = "property" ->
           [i \in 1..Len(cls.properties) |->
              Item(cls.properties[i].name, "Property", PlainText(cls.properties[i].name),
                   <<"~", cls.properties[i].name>>, FALSE)]
      [] memberType = "method" ->
           [i \in 1..Len(cls.methods) |->
              Item(cls.methods[i].name, "Method",
                   IF Len(cls.methods[i].signature) > 0
                   THEN Snippet(<<cls.methods[i].name>>, cls.methods[i].signature[1].parameters)
                   ELSE Snippet(<<cls.methods[i].name>>, << >>),
                   <<"~", cls.methods[i].name>>, FALSE)]
      [] memberType = "constant" ->
           [i \in 1..Len(cls.constants) |->
              Item(cls.constants[i].name, "Constant", PlainText(cls.constants[i].name),
                   <<"~", cls.constants[i].name>>, FALSE)]

(***************************************************************************)
(* provideCompletionItems.  A result is an array of items, a               *)
(* CompletionList (items, isIncomplete), or a thrown exception.            *)
(***************************************************************************)
Result(shape, items) == [shape |-> shape, items |-> items]

(* new vscode.CompletionList(items, isIncomplete) *)
CompletionList(items, isIncomplete) ==
    [shape |-> "list", items |-> items, isIncomplete |-> isIncomplete]

thrownResult == Result("thrown", << >>)

(* The primitive types that are not numeric. *)
primitiveTypesNotNumeric == {"string", "boolean"}

primitiveTypes == {"number", "string", "boolean", "double", "int", "float"}

RECURSIVE SelectSeq2(_, _, _)
SelectSeq2(seq, keep, i) ==
    IF i > Len(seq) THEN << >>
    ELSE (IF keep[i] THEN <<seq[i]>> ELSE << >>) \o SelectSeq2(seq, keep, i + 1)

(* The member lists with the constants ahead of the properties and the    *)
(* methods offered after a dot as well.                                    *)
memberItemsOfEveryKind(context, classes) ==
    Let(findClassByName(classes, context.className), LAMBDA cls :
      IF Len(cls) = 0 THEN Result("array", << >>)
      ELSE Let(getClassWithInheritance(cls[1], classes, 0), LAMBDA clsWithInheritance :
        Result("array", createMemberCompletions(clsWithInheritance, "constant")
                        \o createMemberCompletions(clsWithInheritance, "property")
                        \o createMemberCompletions(clsWithInheritance, "method"))))

(* CONTEXT 1 and CONTEXT 2 *)
memberItems(context, classes) ==
    Let(findClassByName(classes, context.className), LAMBDA cls :
      IF Len(cls) = 0 THEN Result("array", << >>)
      ELSE Let(getClassWithInheritance(cls[1], classes, 0), LAMBDA clsWithInheritance :
        IF clsWithInheritance.name = RangeError THEN thrownResult
        ELSE IF context.type = "member-access"
        THEN Result("array", createMemberCompletions(clsWithInheritance, "property")
                             \o createMemberCompletions(clsWithInheritance, "constant"))
        ELSE Result("array", createMemberCompletions(clsWithInheritance, "method"))))

(* The candidates of the expected type ranked as every other candidate. *)
parameterItemsUnranked(context, classes, globalFunctions) ==
    LET expectedType == context.className
        expectedClass == findClassByName(classes, expectedType)
        constructorItem ==
            IF Len(expectedClass) > 0 /\ Len(expectedClass[1].constructors) > 0
            THEN << Item(expectedClass[1].name, "Class",
                         Snippet(<<expectedClass[1].name>>, expectedClass[1].constructors[1].parameters),
                         <<"~", expectedClass[1].name>>, FALSE) >>
            ELSE << >>
        returnsExpected ==
            [i \in 1..Len(globalFunctions) |->
               /\ Len(globalFunctions[i].signature) > 0
               /\ Len(globalFunctions[i].signature[1].returns) > 0
               /\ FirstReturnType(globalFunctions[i].signature[1].returns) = <<expectedType>>]
        functionItems ==
            [i \in 1..Len(globalFunctions) |->
               Item(globalFunctions[i].name, "Function",
                    IF Len(globalFunctions[i].signature) > 0
                    THEN createSnippetFromSignature(globalFunctions[i].signature[1]) ELSE << >>,
                    <<"~", globalFunctions[i].name>>, FALSE)]
    IN IF toLowerCase(expectedType) \in primitiveTypes
       THEN CompletionList(<< >>, FALSE)
       ELSE Result("array", constructorItem \o SelectSeq2(functionItems, returnsExpected, 1))

(* CONTEXT 2.5 *)
parameterItems(context, classes, globalFunctions) ==
    LET expectedType == context.className
        expectedClass == findClassByName(classes, expectedType)
        constructorItem ==
            IF Len(expectedClass) > 0 /\ Len(expectedClass[1].constructors) > 0
            THEN << Item(expectedClass[1].name, "Class",
                         Snippet(<<expectedClass[1].name>>, expectedClass[1].constructors[1].parameters),
                         <<"!", expectedClass[1].name>>, TRUE) >>
            ELSE << >>
        returnsExpected ==
            [i \in 1..Len(globalFunctions) |->
               /\ Len(globalFunctions[i].signature) > 0
               /\ Len(globalFunctions[i].signature[1].returns) > 0
               /\ FirstReturnType(globalFunctions[i].signature[1].returns) = <<expectedType>>]
        functionItems ==
            [i \in 1..Len(globalFunctions) |->
               Item(globalFunctions[i].name, "Function",
                    IF Len(globalFunctions[i].signature) > 0
                    THEN createSnippetFromSignature(globalFunctions[i].signature[1]) ELSE << >>,
                    <<"!", globalFunctions[i].name>>, TRUE)]
    IN IF toLowerCase(expectedType) \in primitiveTypes
       THEN CompletionList(<< >>, FALSE)
       ELSE Result("array", constructorItem \o SelectSeq2(functionItems, returnsExpected, 1))

(* The identifier list with the snippet of the last declared constructor. *)
identifierItemsLastConstructor(classes, globalFunctions) ==
    LET functionItems ==
            [i \in 1..Len(globalFunctions) |->
               Item(globalFunctions[i].name, "Function",
                    IF Len(globalFunctions[i].signature) > 0
                    THEN createSnippetFromSignature(globalFunctions[i].signature[1]) ELSE << >>,
                    <<"~", globalFunctions[i].name>>, FALSE)]
        classItems ==
            [i \in 1..Len(classes) |->
               Item(classes[i].name, "Class",
                    IF Len(classes[i].constructors) > 0
                    THEN Snippet(<<classes[i].name>>, classes[i].constructors[Len(classes[i].constructors)].parameters)
                    ELSE << >>,
                    <<"~", classes[i].name>>, FALSE)]
    IN Result("array", functionItems \o classItems)

(* CONTEXT 3 *)
identifierItems(classes, globalFunctions) ==
    LET functionItems ==
            [i \in 1..Len(globalFunctions) |->
               Item(globalFunctions[i].name, "Function",
                    IF Len(globalFunctions[i].signature) > 0
                    THEN createSnippetFromSignature(globalFunctions[i].signature[1]) ELSE << >>,
                    <<"~", globalFunctions[i].name>>, FALSE)]
        classItems ==
            [i \in 1..Len(classes) |->
               Item(classes[i].name, "Class",
                    IF Len(classes[i].constructors) > 0
                    THEN Snippet(<<classes[i].name>>, classes[i].constructors[1].parameters)
                    ELSE << >>,
                    <<"~", classes[i].name>>, FALSE)]
    IN Result("array", functionItems \o classItems)

(* A string that is neither null nor empty. *)
Truthy(text) == text \notin {null, ""}

(* The handler that answers a keyword context with an empty CompletionList. *)
completionItemsKeywordList(context, classes, globalFunctions) ==
    IF context.type = RangeError THEN thrownResult
    ELSE IF context.type = "keyword" THEN CompletionList(<< >>, FALSE)
    ELSE IF context.type \in {"member-access", "method-access"} /\ Truthy(context.className)
         THEN memberItems(context, classes)
    ELSE IF context.type = "function-parameter" /\ Truthy(context.className)
         THEN parameterItems(context, classes, globalFunctions)
    ELSE identifierItems(classes, globalFunctions)

(* The items for a classified context. *)
completionItems(context, classes, globalFunctions) ==
    IF context.type = RangeError THEN thrownResult
    ELSE IF context.type = "keyword" THEN Result("array", << >>)
    ELSE IF context.type \in {"member-access", "method-access"} /\ Truthy(context.className)
         THEN memberItems(context, classes)
    ELSE IF context.type = "function-parameter" /\ Truthy(context.className)
         THEN parameterItems(context, classes, globalFunctions)
    ELSE identifierItems(classes, globalFunctions)

provideCompletionItems(document, line, character, classes, globalFunctions) ==
    Let(getCompletionContext(document, line, character, classes, globalFunctions),
        LAMBDA context : completionItems(context, classes, globalFunctions))

(***************************************************************************)
(* provideSignatureHelp.                                                   *)
(***************************************************************************)
SignatureInformation(label, parameters) ==
    [label |-> label, parameters |-> [i \in 1..Len(parameters) |-> parameters[i].label]]

(* The signatures with one for every function, its signature read unguarded. *)
functionSignaturesUnguarded(functions) ==
    [i \in 1..Len(functions) |->
       IF Len(functions[i].signature) > 0
       THEN SignatureInformation(functions[i].signature[1].label,
                                 functions[i].signature[1].parameters)
       ELSE SignatureInformation(<< >>, << >>)]

functionSignatures(functions) ==
    LET has == [i \in 1..Len(functions) |-> Len(functions[i].signature) > 0]
        all == [i \in 1..Len(functions) |->
                  IF has[i]
                  THEN SignatureInformation(functions[i].signature[1].label,
                                            functions[i].signature[1].parameters)
                  ELSE SignatureInformation(<< >>, << >>)]
    IN SelectSeq2(all, has, 1)

constructorSignatures(constructors) ==
    [i \in 1..Len(constructors) |->
       SignatureInformation(constructors[i].label, constructors[i].parameters)]

RECURSIVE classSignatures(_, _)
classSignatures(classes, i) ==
    IF i > Len(classes) THEN << >>
    ELSE constructorSignatures(classes[i].constructors) \o functionSignatures(classes[i].methods)
         \o classSignatures(classes, i + 1)

(* The handler with the active parameter at the comma count of the line. *)
provideSignatureHelpAtArgument(document, line, character, classes, globalFunctions) ==
    [signatures |-> functionSignatures(globalFunctions) \o classSignatures(classes, 1),
     activeSignature |-> 0,
     activeParameter |-> commaCount(SubSeq(lineAt(document, line), 1, character))]

provideSignatureHelp(document, line, character, classes, globalFunctions) ==
    [signatures |-> functionSignatures(globalFunctions) \o classSignatures(classes, 1),
     activeSignature |-> 0, activeParameter |-> 0]

(***************************************************************************)
(* provideHover and the hover helper functions.  A hover is the heading of *)
(* its markdown and the signature label when a signature section is        *)
(* rendered; no hover is << >>.                                            *)
(***************************************************************************)
Hover(kind, heading, signature) == << [kind |-> kind, heading |-> heading, signature |-> signature] >>

createFunctionHover(fn) ==
    Hover("function", <<fn.name>>, IF Len(fn.signature) > 0 THEN fn.signature[1].label ELSE << >>)

createClassHover(cls) == Hover("class", <<cls.name>>, << >>)

createMethodHover(className, method) ==
    Hover("method", <<className, ":", method.name>>,
          IF Len(method.signature) > 0 THEN method.signature[1].label ELSE << >>)

createPropertyHover(className, prop) == Hover("property", <<className, ".", prop.name>>, << >>)

createConstantHover(className, constant) ==
    Hover("constant", <<className, ".", constant.name>>, << >>)

(* for (const cls of classes): methods, then properties, then constants *)
RECURSIVE memberHover(_, _, _)
memberHover(classes, i, word) ==
    IF i > Len(classes) THEN << >>
    ELSE LET cls == classes[i]
             method == FindByName(cls.methods, word)
             prop == FindByName(cls.properties, word)
             constant == FindByName(cls.constants, word)
         IN IF Len(method) > 0 THEN createMethodHover(cls.name, method[1])
            ELSE IF Len(prop) > 0 THEN createPropertyHover(cls.name, prop[1])
            ELSE IF Len(constant) > 0 THEN createConstantHover(cls.name, constant[1])
            ELSE memberHover(classes, i + 1, word)

(* The lookup that tries the classes before the global functions. *)
provideHoverClassFirst(document, line, character, classes, globalFunctions) ==
    LET word == wordAtPosition(lineAt(document, line), character)
        globalFn == FindByName(globalFunctions, word)
        cls == FindByName(classes, word)
    IN IF Len(cls) > 0 THEN createClassHover(cls[1])
       ELSE IF Len(globalFn) > 0 THEN createFunctionHover(globalFn[1])
       ELSE memberHover(classes, 1, word)

provideHover(document, line, character, classes, globalFunctions) ==
    LET word == wordAtPosition(lineAt(document, line), character)
        globalFn == FindByName(globalFunctions, word)
        cls == FindByName(classes, word)
    IN IF Len(globalFn) > 0 THEN createFunctionHover(globalFn[1])
       ELSE IF Len(cls) > 0 THEN createClassHover(cls[1])
       ELSE memberHover(classes, 1, word)

(***************************************************************************)
(* The catalog loaded by activate (loadGlobalFunctions, loadClasses), in   *)
(* the format of src/vectric-api/README.md.                                *)
(***************************************************************************)
ParamA == Param(<<"a">>, <<"a", ":", "sp", "A">>)
ParamK == Param(<<"k">>, <<"k", ":", "sp", "number">>)

(* class A with the constructor A(x: number, y: number), the methods       *)
(* M(k: number) returning "B, POSITION" and N() returning "number"         *)
ClassA ==
    Class("A", <<"class", "sp", "A">>,
          <<Constructor(<<"A", "(", "x", ":", "sp", "number", ",", "sp", "y", ":", "sp", "number", ")">>,
                        <<Param(<<"x">>, <<"x", ":", "sp", "number">>),
                          Param(<<"y">>, <<"y", ":", "sp", "number">>)>>)>>,
          <<Property("P", <<"B">>), Property("Q", <<"number">>)>>,
          <<Function("M", <<Signature(<<"M", "(", "k", ":", "sp", "number", ")">>, <<ParamK>>,
                                      <<"B", ",", "sp", "POSITION">>)>>),
            Function("N", <<Signature(<<"N", "(", ")">>, << >>, <<"number">>)>>)>>,
          <<Constant("K1", <<"1">>)>>)

(* class B with the constructors B(a: A), B(k, a: A, d) and B(k, a, d, e). *)
(* In the second the label of parameter a names another type than the      *)
(* constructor label, and parameter d has its type in its own label and    *)
(* another one in its documentation; in the third only the documentation   *)
(* of parameter e names a type.  R is a method and a property, T a         *)
(* property and a constant, P a method here and a property of class A.     *)
ClassB ==
    Class("B", <<"class", "sp", "B">>,
          <<Constructor(<<"B", "(", "a", ":", "sp", "A", ")">>, <<ParamA>>),
            Constructor(<<"B", "(", "k", ",", "sp", "a", ":", "sp", "A", ",", "sp", "d", ")">>,
                        <<Param(<<"k">>, <<"k">>),
                          Param(<<"a", ":", "sp", "D">>, <<"a">>),
                          Param(<<"d", ":", "sp", "D">>, <<"A", "sp", "-", "sp", "d">>)>>),
            Constructor(<<"B", "(", "k", ",", "sp", "a", ",", "sp", "d", ",", "sp", "e", ")">>,
                        <<Param(<<"k">>, <<"k">>), Param(<<"a">>, <<"a">>), Param(<<"d">>, <<"d">>),
                          Param(<<"e">>, <<"D", "sp", "-", "sp", "e">>)>>)>>,
          <<Property("R", <<"A">>), Property("T", <<"number">>)>>,
          <<Function("R", << >>), Function("P", << >>)>>,
          <<Constant("T", <<"2">>)>>)

ClassD == Class("D", <<"class", "sp", "D", "sp", "extends", "sp", "A">>, << >>,
                <<Property("S", <<"string">>)>>, << >>, << >>)

(* class E extends D, which extends A *)
ClassE == Class("E", <<"class", "sp", "E", "sp", "extends", "sp", "D">>, << >>,
                <<Property("U", <<"string">>)>>, << >>, << >>)

LoadedClasses == <<ClassA, ClassB, ClassD, ClassE>>

(* The catalog with 'extends' declarations that form cycles: A extends B   *)
(* and B extends A, D extends D; E extends D.                              *)
CyclicClasses ==
    << [ClassA EXCEPT !.detail = <<"class", "sp", "A", "sp", "extends", "sp", "B">>],
       [ClassB EXCEPT !.detail = <<"class", "sp", "B", "sp", "extends", "sp", "A">>],
       [ClassD EXCEPT !.detail = <<"class", "sp", "D", "sp", "extends", "sp", "D">>],
       ClassE >>

(* F(k: number) returning "B";  G(a: A, k: number) returning "A, B";  H without signature; *)
(* D(a: A) returning "D", named as class D, the documentation of its       *)
(* parameter without a colon                                               *)
LoadedFunctions ==
    << Function("F", <<Signature(<<"F", "(", "k", ":", "sp", "number", ")">>, <<ParamK>>, <<"B">>)>>),
       Function("G", <<Signature(<<"G", "(", "a", ":", "sp", "A", ",", "sp", "k", ":", "sp", "number", ")">>,
                                 <<ParamA, ParamK>>, <<"A", ",", "sp", "B">>)>>),
       Function("H", << >>),
       Function("D", <<Signature(<<"D", "(", "a", ":", "sp", "A", ")">>,
                                 <<Param(<<"a", ":", "sp", "A">>, <<"A", "sp", "-", "sp", "a">>)>>,
                                 <<"D">>)>>) >>

(***************************************************************************)
(* The text buffers.  A buffer is some lines followed by the line being    *)
(* typed; a request is made with the cursor at the end of that line.       *)
(***************************************************************************)
LocalXA == <<"local", "sp", "x", "sp", "=", "sp", "A", "(", ")">>
AssignXB == <<"x", "sp", "=", "sp", "B", "(", ")">>
LocalXYF == <<"local", "sp", "x", ",", "sp", "y", "sp", "=", "sp", "F", "(", "k", ")">>
AssignXYoM == <<"x", ",", "sp", "y", "sp", "=", "sp", "o", ":", "M", "(", "k", ")">>
LocalOA == <<"local", "sp", "o", "sp", "=", "sp", "A", "(", ")">>
AssignXxP == <<"x", "sp", "=", "sp", "x", ".", "P">>
AssignXxM == <<"x", "sp", "=", "sp", "x", ":", "M", "(", ")">>
AssignXyPyxP == <<"x", "sp", "=", "sp", "y", ".", "P", ";", "sp", "y", "sp", "=", "sp", "x", ".", "P">>
ForX == <<"for", "sp", "x", "sp", "in", "sp", "o", "sp", "do">>
FunctionX == <<"function", "sp", "x", "(", ")">>
ForKX == <<"for", "sp", "k", ",", "sp", "x", "sp", "in", "sp", "o", "sp", "do">>
FunctionFX == <<"function", "sp", "f", "(", "x", ")">>

BindingLines ==
    { LocalXA, AssignXB, LocalXYF, AssignXYoM, LocalOA, AssignXxP, AssignXxM, AssignXyPyxP,
      ForX, FunctionX, ForKX, FunctionFX }

CursorLines ==
    { <<"x", ".">>, <<"y", ".">>, <<"D", ".">>, <<"D", ":">>, <<"z", ".">>, <<"z", ":">> }

(* Lines that end inside a call, after a keyword, or in a plain word. *)
CallLines ==
    { <<"G", "(">>,
      <<"G", "(", "x", ",", "sp">>,
      <<"G", "(", "x", ".">>,
      <<"G", "(", "o", ":">>,
      <<"G", "(", "x", ".", "end">>,
      <<"x", ".", "end">>,
      <<"x", ".", "string">>,
      <<"o", ":", "End">>,
      <<"B", "(">>,
      <<"B", "(", "A", "(">>,
      <<"G", "(", "F", "(">>,
      <<"G", "(", "F", "(", "k", ")", ",", "sp">>,
      <<"local", "sp", "t", "sp", "=", "sp", "B", "(", "A", "(">>,
      <<"G", "(", "H", "(">>,
      <<"z", "(">>,
      <<"o", ":", "M", "(">>,
      <<"D", "(">>,
      <<"x">>,
      <<"local", "sp", "x">>,
      <<"x", "sp", "==", "sp", "1", "sp">>,
      <<"G", "(", "x", ")", "sp">>,
      <<"x", "sp", "and", "sp", "G", "(">>,
      <<"G", "(", "A", "(", "1", ",", "2", ")">>,
      <<"B", "(", "A", "(", "1", ",", "2", ")", ",", "sp">>,
      <<"B", "(", "1", ",", "sp">>,
      <<"B", "(", "1", ",", "sp", "1", ",", "sp">>,
      <<"B", "(", "1", ",", "sp", "1", ",", "sp", "1", ",", "sp">>,
      <<"B", "(", "1", ",", "sp", "1", ",", "sp", "1", ",", "sp", "1", ",", "sp">>,
      <<"A", ".">>, <<"A", ":">>, <<"B", ".">>, <<"B", ":">>,
      <<"D", ".">>, <<"D", ":">>, <<"E", ".">>, <<"E", ":">>,
      <<"F">>, <<"D">>, <<"A">>, <<"R">>, <<"P">>, <<"T">>, <<"M">>, <<"K1">>, <<"S">>, <<"k1">>,
      <<"H">>, <<"H", "(">>,
      <<"G", "(", "x", ",", "sp", "y", ",", "sp">>,
      <<"x", "sp", "=", "sp", "H", "(", ")", ";", "sp", "x", ".">>,
      <<"x", "sp", "=", "sp", "F", "(", "k", ")", ";", "sp", "x", ".">> }

(* Every text of at most MaxParenLength tokens made of a function name and *)
(* parentheses, two names never adjacent.                                  *)
MaxParenLength == 4

ParenLines ==
    UNION {{text \in [1..n -> {"G", "(", ")"}] :
              \A i \in 1..(n - 1) : text[i] = "G" => text[i + 1] # "G"} : n \in 1..MaxParenLength}

DeclarationLines == {LocalXA, LocalOA}

(* Lines that bind x through a property, a function call or a method call, *)
(* alone, after 'local', as the first of two names (x, w) or as the second *)
(* (w, x).                                                                 *)
PropertyLine(object, property) == <<"x", "sp", "=", "sp", object, ".", property>>

FunctionLine(function) == <<"x", "sp", "=", "sp", function, "(", "k", ")">>

MethodLine(object, method) == <<"x", "sp", "=", "sp", object, ":", method, "(", "k", ")">>

Local(line) == <<"local", "sp">> \o line

FirstOfTwo(line) == <<"x", ",", "sp", "w">> \o Tail(line)

SecondOfTwo(line) == <<"w", ",", "sp", "x">> \o Tail(line)

LocalY(class) == <<"local", "sp", "y", "sp", "=", "sp", class, "(", ")">>

(* A buffer of chained bindings opens with a declaration of y or of x. *)
OpeningLines == {LocalY("A"), LocalY("D"), LocalXA}

ChainLines ==
    {LocalY("A"), LocalXA}
    \cup {PropertyLine("y", property) : property \in {"P", "Q", "Z"}}
    \cup {Local(PropertyLine("y", "P"))}
    \cup {FunctionLine(function) : function \in {"G", "H", "z"}}
    \cup {Local(FirstOfTwo(FunctionLine("F")))}
    \cup {MethodLine("y", method) : method \in {"M", "N", "Z"}}
    \cup {Local(FirstOfTwo(MethodLine("y", "M")))}
    \cup {Local(SecondOfTwo(FunctionLine("F"))), SecondOfTwo(MethodLine("y", "M"))}

ChainCursorLines == { <<"x", ".">>, <<"y", ".">>, <<"y", ":">> }

MaxChain == 3

(* Long buffers: a binding of y, a binding of x through y or directly, and *)
(* runs of blank lines between them as long as the search window or one    *)
(* line shorter.                                                           *)
FarLines == {PropertyLine("y", "P"), MethodLine("y", "M"), FunctionLine("F"), LocalXA}

FarGaps == {SearchWindow - 1, SearchWindow}

MaxFar == 2

BlankLine == << >>

MaxBindings == 2

MaxBlankLines == 102

MaxRequests == 2

VARIABLES document, classes, globalFunctions, request, context, response, served

vars == <<document, classes, globalFunctions, request, context, response, served>>

NoRequest == [kind |-> "none", line |-> 0, character |-> 0]

NoResponse == Result("none", << >>)

(* activate: the catalog is loaded; no buffer is open. *)
Init ==
    /\ document = << >>
    /\ classes = LoadedClasses
    /\ globalFunctions = LoadedFunctions
    /\ request = NoRequest
    /\ context = identifierContext
    /\ response = NoResponse
    /\ served = 0

(* activate with the catalog whose classes extend each other. *)
InitCycle ==
    /\ document = << >>
    /\ classes = CyclicClasses
    /\ globalFunctions = LoadedFunctions
    /\ request = NoRequest
    /\ context = identifierContext
    /\ response = NoResponse
    /\ served = 0

HasCursorLine ==
    /\ Len(document) > 0
    /\ document[Len(document)] \in CursorLines \cup CallLines \cup ParenLines \cup ChainCursorLines

(* The editor changes the buffer: a line is typed at its end. *)
TypeLine(text) ==
    /\ ~HasCursorLine
    /\ document' = Append(document, text)
    /\ request' = NoRequest
    /\ context' = identifierContext
    /\ response' = NoResponse
    /\ served' = 0
    /\ UNCHANGED <<classes, globalFunctions>>

TypeBindingLine == Len(document) < MaxBindings /\ \E text \in BindingLines : TypeLine(text)

TypeCursorLine == \E text \in CursorLines : TypeLine(text)

TypeDeclarationLine == document = << >> /\ \E text \in DeclarationLines : TypeLine(text)

TypeBlankLine == Len(document) <= MaxBlankLines /\ TypeLine(BlankLine)

TypeQueryLine == TypeLine(<<"x", ".">>)

TypeCallLine == \E text \in CallLines \cup ParenLines : TypeLine(text)

TypeChainLine ==
    /\ Len(document) < MaxChain
    /\ \E text \in (IF document = << >> THEN OpeningLines ELSE ChainLines) : TypeLine(text)

TypeChainCursorLine == \E text \in ChainCursorLines : TypeLine(text)

BlankLines(n) == [i \in 1..n |-> BlankLine]

NonBlank(text) == Cardinality({i \in 1..Len(text) : text[i] # BlankLine})

TypeFarLine ==
    /\ NonBlank(document) < MaxFar
    /\ \E text \in (IF document = << >> THEN OpeningLines ELSE FarLines) : TypeLine(text)

(* The editor inserts a run of blank lines after a line of text. *)
TypeBlankLines ==
    /\ document # << >>
    /\ ~HasCursorLine
    /\ document[Len(document)] # BlankLine
    /\ \E n \in FarGaps : document' = document \o BlankLines(n)
    /\ request' = NoRequest
    /\ context' = identifierContext
    /\ response' = NoResponse
    /\ served' = 0
    /\ UNCHANGED <<classes, globalFunctions>>

(* The position of a request: the end of the line being typed. *)
CursorLine == Len(document) - 1

CursorCharacter == Len(lineAt(document, CursorLine))

Serve(kind) ==
    /\ HasCursorLine
    /\ served < MaxRequests
    /\ served' = served + 1
    /\ request' = [kind |-> kind, line |-> CursorLine, character |-> CursorCharacter]
    /\ UNCHANGED <<document, classes, globalFunctions>>

(* The handler with the inherited members merged into the class of the    *)
(* catalog instead of into a copy.                                         *)
ProvideCompletionItemsMergingInPlace ==
    /\ HasCursorLine
    /\ served < MaxRequests
    /\ served' = served + 1
    /\ request' = [kind |-> "completion", line |-> CursorLine, character |-> CursorCharacter]
    /\ context' = getCompletionContext(document, CursorLine, CursorCharacter, classes, globalFunctions)
    /\ response' = completionItems(context', classes, globalFunctions)
    /\ classes' = [i \in 1..Len(classes) |->
                     IF classes[i].name = context'.className
                     THEN getClassWithInheritance(classes[i], classes, 0)
                     ELSE classes[i]]
    /\ UNCHANGED <<document, globalFunctions>>

ProvideCompletionItems ==
    /\ Serve("completion")
    /\ context' = getCompletionContext(document, CursorLine, CursorCharacter, classes, globalFunctions)
    /\ response' = completionItems(context', classes, globalFunctions)

ProvideSignatureHelp ==
    /\ Serve("signatureHelp")
    /\ response' = Result("signatureHelp",
                          <<provideSignatureHelp(document, CursorLine, CursorCharacter,
                                                 classes, globalFunctions)>>)
    /\ UNCHANGED context

ProvideHover ==
    /\ Serve("hover")
    /\ response' = Result("hover",
                          provideHover(document, CursorLine, CursorCharacter, classes, globalFunctions))
    /\ UNCHANGED context

(* Buffers of binding lines. *)
Next ==
    \/ TypeBindingLine
    \/ TypeCursorLine
    \/ ProvideCompletionItems
    \/ ProvideSignatureHelp
    \/ ProvideHover

Spec == Init /\ [][Next]_vars

(* Buffers with a binding far above the cursor. *)
NextWindow ==
    \/ TypeDeclarationLine
    \/ TypeBlankLine
    \/ TypeQueryLine
    \/ ProvideCompletionItems
    \/ ProvideSignatureHelp
    \/ ProvideHover

SpecWindow == Init /\ [][NextWindow]_vars

(* Buffers whose last line ends inside a call. *)
NextCall ==
    \/ TypeDeclarationLine
    \/ TypeCallLine
    \/ ProvideCompletionItems
    \/ ProvideSignatureHelp
    \/ ProvideHover

SpecCall == Init /\ [][NextCall]_vars

(* The requests of SpecCall on the catalog of classes that extend each    *)
(* other.                                                                  *)
SpecCycle == InitCycle /\ [][NextCall]_vars

(* Buffers of bindings through properties, functions and methods, and    *)
(* the completion requests on them.                                       *)
NextChain ==
    \/ TypeChainLine
    \/ TypeChainCursorLine
    \/ ProvideCompletionItems

SpecChain == Init /\ [][NextChain]_vars

(* Long buffers with the bindings one search window apart, and the        *)
(* completion requests on them.                                            *)
NextFar ==
    \/ TypeFarLine
    \/ TypeBlankLines
    \/ TypeQueryLine
    \/ ProvideCompletionItems

SpecFar == Init /\ [][NextFar]_vars

(***************************************************************************)
(* Properties of the inferrer.  Line numbers are counted from 0, as in the *)
(* source; document[n + 1] is line n.                                      *)
(***************************************************************************)
LineNumbers == 0..(Len(document) - 1)

Infer(lineNum, varName) == inferVariableType(document, lineNum, varName, classes, globalFunctions, 0)

ClassNames == {classes[i].name : i \in 1..Len(classes)}

Mentions(text, word) == \E n \in 1..Len(text) : text[n] = word

(* No line after line b, up to and including line q, is a binding line. *)
NoBindingAfter(b, q) == \A n \in (b + 1)..q : lineAt(document, n) \notin BindingLines

Completed == request.kind = "completion"

(* C1: inferVariableType returns a class name or null, without a fault,    *)
(* for every buffer, query line and identifier.                            *)
C1_InferenceReturns ==
    \A q \in LineNumbers, varName \in {"x", "y"} : Infer(q, varName) \in ClassNames \cup {null}

(* C2: with 'local x = A()' on a line and 'x = B()' on a later line, the    *)
(* type inferred for x at any line after the second statement is B.        *)
C2_MostRecentBindingWins ==
    \A a, b, q \in LineNumbers :
        (/\ a < b /\ b < q
         /\ lineAt(document, a) = LocalXA
         /\ lineAt(document, b) = AssignXB
         /\ NoBindingAfter(b, q))
        => Infer(q, "x") = "B"

C2_Witness ==
    /\ Completed
    /\ document = <<LocalXA, AssignXB, <<"x", ".">> >>
    /\ context.className = "B"
    /\ Len(response.items) = 3 /\ response.items[1].label = "R"

C4_DeclarationStops ==
    \A a, b, q \in LineNumbers :
        (/\ a < b /\ b < q
         /\ lineAt(document, a) = LocalXA
         /\ lineAt(document, b) \in {ForX, FunctionX}
         /\ NoBindingAfter(b, q))
        => Infer(q, "x") = null

C4_Witness ==
    /\ Completed
    /\ document = <<LocalXA, FunctionX, <<"x", ".">> >>
    /\ context.className = "x"
    /\ response = Result("array", << >>)

(* C5: a line that declares x as a later loop variable ('for k, x in') or  *)
(* as a function parameter ('function f(x)') between 'local x = A()' and   *)
(* the query line ends the search: the type inferred for x is null.        *)
C5_DeclarationAnywhereStops ==
    \A a, b, q \in LineNumbers :
        (/\ a < b /\ b < q
         /\ lineAt(document, a) = LocalXA
         /\ lineAt(document, b) \in {ForKX, FunctionFX}
         /\ NoBindingAfter(b, q))
        => Infer(q, "x") = null

(* C6: the search examines the query line and at most the 100 lines before *)
(* it: when the only line that mentions x above the query line is          *)
(* 'local x = A()', the type inferred for x is A if that line is at most   *)
(* 100 lines before the query line, and null if it is 101 or more before.  *)
C6_WindowOfHundredLines ==
    \A b \in LineNumbers :
        LET q == Len(document) - 1
        IN (/\ b < q
            /\ lineAt(document, b) = LocalXA
            /\ \A n \in 0..(q - 1) : n # b => ~Mentions(lineAt(document, n), "x"))
           => Infer(q, "x") = IF q - b <= 100 THEN "A" ELSE null

C6_Witness ==
    /\ Completed
    /\ Len(document) = 101
    /\ document[1] = LocalXA
    /\ request.line = 100
    /\ context.className = "A"

(***************************************************************************)
(* Properties of the providers.                                            *)
(***************************************************************************)
(* C7: whatever requests were served before, the loaded function and class *)
(* lists are unchanged and the response is the one the request gets when   *)
(* it is served alone on the same buffer, position and loaded catalog.     *)
C7_RequestsIndependent ==
    /\ classes = LoadedClasses
    /\ globalFunctions = LoadedFunctions
    /\ request.kind = "completion" =>
         response = provideCompletionItems(document, request.line, request.character,
                                           LoadedClasses, LoadedFunctions)
    /\ request.kind = "signatureHelp" =>
         response = Result("signatureHelp",
                           <<provideSignatureHelp(document, request.line, request.character,
                                                  LoadedClasses, LoadedFunctions)>>)
    /\ request.kind = "hover" =>
         response = Result("hover", provideHover(document, request.line, request.character,
                                                 LoadedClasses, LoadedFunctions))

C7_Witness ==
    /\ served = 2
    /\ Completed
    /\ context.className = "D"
    /\ Len(response.items) = 4
    /\ classes = LoadedClasses

(* The text before the cursor and the word under it, for the last request. *)
TextBeforeCursor == SubSeq(lineAt(document, request.line), 1, request.character)

IsWord(t) == t \notin Punct

(* The text ends in 'ident' sep 'prefix', the prefix possibly empty. *)
EndsInAccess(text, sep) ==
    LET n == Len(text)
    IN \/ n >= 2 /\ text[n] = sep /\ IsWord(text[n - 1])
       \/ n >= 3 /\ IsWord(text[n]) /\ text[n - 1] = sep /\ IsWord(text[n - 2])

(* C8: the classification is the first that applies of: keyword guard,     *)
(* member access, method access, call-argument slot, identifier.  Text     *)
(* ending in 'ident.prefix' inside an open call of a known function is a   *)
(* member access; a reserved word or built-in type name under the cursor   *)
(* is a keyword even after 'ident.'.                                       *)
C8_Precedence ==
    Completed =>
        LET text == TextBeforeCursor
            word == wordAtPosition(lineAt(document, request.line), request.character)
            call == callContext(text, classes, globalFunctions)
        IN /\ context.type =
                IF keywordGuard(text, word) THEN "keyword"
                ELSE IF EndsInAccess(text, ".") THEN "member-access"
                ELSE IF EndsInAccess(text, ":") THEN "method-access"
                ELSE IF call.type = "function-parameter" THEN "function-parameter"
                ELSE "identifier"
           /\ text = <<"G", "(", "x", ".">> => context.type = "member-access"
           /\ text = <<"G", "(", "o", ":">> => context.type = "method-access"
           /\ text \in {<<"x", ".", "end">>, <<"x", ".", "string">>, <<"G", "(", "x", ".", "end">>}
                => context.type = "keyword"

C8_Witness ==
    /\ Completed
    /\ document = <<LocalXA, <<"G", "(", "x", ".">> >>
    /\ context.type = "member-access"
    /\ context.className = "A"
    /\ callContext(TextBeforeCursor, classes, globalFunctions).type = "function-parameter"

(* C9: when the type inferred for the identifier before '.' or ':' is      *)
(* null, the identifier is the class name of the context; the completions  *)
(* are the members of the class of that name (D: the properties and        *)
(* constants P, Q, S, K1 after '.', the methods M, N after ':'), and no    *)
(* completions when no class has that name.                                *)
C9_AccessFallback ==
    (/\ Completed
     /\ context.type \in {"member-access", "method-access"}
     /\ Infer(request.line, context.objectName) = null)
    => /\ context.className = context.objectName
       /\ response.shape = "array"
       /\ [i \in 1..Len(response.items) |-> response.items[i].label] =
            IF context.objectName = "D"
            THEN IF context.type = "member-access" THEN <<"P", "Q", "S", "K1">> ELSE <<"M", "N">>
            ELSE << >>
       /\ context.objectName \in {"D", "x", "y", "z"}

C9_Witness ==
    /\ Completed
    /\ document = <<LocalXA, <<"D", ".">> >>
    /\ Infer(1, "D") = null
    /\ context.className = "D"
    /\ Len(response.items) = 4

(* The opening parenthesis at i has no matching closing parenthesis after   *)
(* it: no text after it closes more parentheses than it opens.             *)
Count(text, from, to, t) == Cardinality({n \in from..to : text[n] = t})

Unmatched(text, i) ==
    /\ text[i] = "("
    /\ \A j \in (i + 1)..Len(text) : Count(text, i + 1, j, ")") <= Count(text, i + 1, j, "(")

(* C10: the function of a call-argument classification is the identifier   *)
(* right before the last '(' without a matching ')' after it; for          *)
(* B(A( it is A, the expected type is that of A's parameter (number), and   *)
(* no completion is preselected.                                           *)
C10_InnermostOpenCall ==
    (Completed /\ context.type = "function-parameter") =>
        LET text == TextBeforeCursor
            open == {i \in 1..Len(text) : Unmatched(text, i)}
            last == CHOOSE i \in open : \A j \in open : j <= i
        IN /\ open # {}
           /\ last > 1
           /\ context.functionName = text[last - 1]
           /\ (Len(text) >= 4 /\ SubSeq(text, Len(text) - 3, Len(text)) = <<"B", "(", "A", "(">>)
                => /\ context.functionName = "A"
                   /\ context.className = "number"
                   /\ \A i \in 1..Len(response.items) : ~response.items[i].preselect

C10_Witness ==
    /\ Completed
    /\ document = << <<"local", "sp", "t", "sp", "=", "sp", "B", "(", "A", "(">> >>
    /\ context.type = "function-parameter"
    /\ context.functionName = "A"
    /\ context.className = "number"
    /\ response = CompletionList(<< >>, FALSE)

(* The place of the innermost open parenthesis of the text: the last '('   *)
(* without a matching ')' after it, 0 when every '(' is closed.            *)
InnermostOpen(text) ==
    LET open == {i \in 1..Len(text) : Unmatched(text, i)}
    IN IF open = {} THEN 0 ELSE CHOOSE i \in open : \A j \in open : j <= i

(* C11: the parameterIndex of a call-argument classification is the number *)
(* of all commas between the innermost open parenthesis and the cursor,    *)
(* those inside closed nested calls included: 2 for B(A(1,2), .             *)
C11_IndexCountsEveryComma ==
    (Completed /\ context.type = "function-parameter") =>
        /\ InnermostOpen(TextBeforeCursor) > 0
        /\ context.parameterIndex =
             Count(TextBeforeCursor, InnermostOpen(TextBeforeCursor) + 1, Len(TextBeforeCursor), ",")
        /\ TextBeforeCursor = <<"B", "(", "A", "(", "1", ",", "2", ")", ",", "sp">>
             => context.parameterIndex = 2
        /\ TextBeforeCursor = <<"G", "(", "A", "(", "1", ",", "2", ")">>
             => context.parameterIndex = 1

C11_Witness ==
    /\ Completed
    /\ TextBeforeCursor = <<"B", "(", "A", "(", "1", ",", "2", ")", ",", "sp">>
    /\ context.type = "function-parameter"
    /\ context.functionName = "B"
    /\ context.parameterIndex = 2

(* The names of catalog entries and the labels and kinds of the items of   *)
(* the last response.                                                      *)
Names(entries) == [i \in 1..Len(entries) |-> entries[i].name]

Labels == [i \in 1..Len(response.items) |-> response.items[i].label]

Kinds == [i \in 1..Len(response.items) |-> response.items[i].kind]

ClassNamed(name) == CHOOSE cls \in {LoadedClasses[i] : i \in 1..Len(LoadedClasses)} : cls.name = name

(* The class of a member or method access is in the catalog. *)
AccessResolved ==
    /\ Completed
    /\ context.type \in {"member-access", "method-access"}
    /\ context.className \in ClassNames

(* C12: after a dot the list is the properties and then the constants of   *)
(* the resolved class, in catalog order, each inserted as its bare name,   *)
(* and no method; after a colon it is the methods of the class and nothing *)
(* else.  The list of a class that extends no class is that of its own     *)
(* members.                                                                *)
C12_MemberListsByKind ==
    AccessResolved =>
        LET cls == ClassNamed(context.className)
            own == ~Mentions(cls.detail, "extends")
        IN /\ context.type = "member-access" =>
                /\ \A i \in 1..Len(Kinds) : Kinds[i] \in {"Property", "Constant"}
                /\ \A i, j \in 1..Len(Kinds) :
                      (Kinds[i] = "Property" /\ Kinds[j] = "Constant") => i < j
                /\ \A i \in 1..Len(Labels) :
                      /\ ~response.items[i].insertText[1].snippet
                      /\ response.items[i].insertText[1].name = <<Labels[i]>>
                /\ own => Labels = Names(cls.properties) \o Names(cls.constants)
           /\ context.type = "method-access" =>
                /\ \A i \in 1..Len(Kinds) : Kinds[i] = "Method"
                /\ own => Labels = Names(cls.methods)

C12_Witness ==
    /\ AccessResolved
    /\ TextBeforeCursor = <<"B", ".">>
    /\ Labels = <<"R", "T", "T">>
    /\ Kinds = <<"Property", "Property", "Constant">>

(* The catalog classes from the farthest base class of cls down to cls:    *)
(* the base class of a class is the catalog class named after 'extends' in *)
(* its detail.                                                             *)
RECURSIVE Lineage(_)
Lineage(cls) ==
    LET at == {i \in 1..(Len(cls.detail) - 2) : cls.detail[i] = "extends"}
        base == cls.detail[(CHOOSE i \in at : TRUE) + 2]
    IN IF at = {} \/ base \notin ClassNames THEN <<cls>>
       ELSE Append(Lineage(ClassNamed(base)), cls)

RECURSIVE NamesAlong(_, _)
NamesAlong(lineage, field) ==
    IF Len(lineage) = 0 THEN << >>
    ELSE Names(Head(lineage)[field]) \o NamesAlong(Tail(lineage), field)

(* C13: the list of a class that extends a catalog class holds the members *)
(* of every class of its chain of base classes, the members of a base      *)
(* class before those of the class that extends it: properties and then    *)
(* constants after a dot, methods after a colon.  For E, which extends D,   *)
(* which extends A, the lists are P, Q, S, U, K1 and M, N.                   *)
C13_InheritedMembers ==
    AccessResolved =>
        LET lineage == Lineage(ClassNamed(context.className))
        IN /\ context.type = "member-access" =>
                Labels = NamesAlong(lineage, "properties") \o NamesAlong(lineage, "constants")
           /\ context.type = "method-access" => Labels = NamesAlong(lineage, "methods")
           /\ (context.className = "E" /\ context.type = "member-access")
                => Labels = <<"P", "Q", "S", "U", "K1">>
           /\ (context.className = "E" /\ context.type = "method-access")
                => Labels = <<"M", "N">>

C13_Witness ==
    /\ AccessResolved
    /\ TextBeforeCursor = <<"E", ".">>
    /\ Len(Lineage(ClassNamed("E"))) = 3
    /\ Labels = <<"P", "Q", "S", "U", "K1">>

(* C14: when the expected type of a call-argument classification is one   *)
(* of number, string, boolean, double, int, float, the result is a         *)
(* CompletionList without items whose isIncomplete is false.               *)
C14_PrimitiveSuppression ==
    (/\ Completed
     /\ context.type = "function-parameter"
     /\ context.className \in {"number", "string", "boolean", "double", "int", "float"})
        => /\ response.shape = "list"
           /\ response.items = << >>
           /\ response.isIncomplete = FALSE

C14_Witness ==
    /\ Completed
    /\ TextBeforeCursor = <<"G", "(", "x", ",", "sp">>
    /\ context.type = "function-parameter"
    /\ context.parameterIndex = 1
    /\ context.className = "number"
    /\ response.shape = "list"
    /\ response.isIncomplete = FALSE

(* The character codes of the first characters of the sort keys. *)
CharCode == [c \in {"!", "~"} |-> IF c = "!" THEN 33 ELSE 126]

(* The global functions whose returns start with the type, in catalog order. *)
RECURSIVE Returning(_, _)
Returning(type, i) ==
    IF i > Len(LoadedFunctions) THEN << >>
    ELSE (IF /\ LoadedFunctions[i].signature # << >>
             /\ LoadedFunctions[i].signature[1].returns # << >>
             /\ LoadedFunctions[i].signature[1].returns[1] = type
          THEN <<LoadedFunctions[i].name>> ELSE << >>) \o Returning(type, i + 1)

(* C15: for a call-argument classification whose expected type T is not a  *)
(* primitive the list is the constructor candidate of T, when T is a class *)
(* with a constructor, and then every global function whose first return   *)
(* type is T; each is preselected and its sort key starts with '!', which   *)
(* orders before the '~' that starts every sort key of the identifier and   *)
(* access lists.                                                           *)
C15_ExpectedTypeCandidates ==
    /\ (/\ Completed
         /\ context.type = "function-parameter"
         /\ toLowerCase(context.className) \notin {"number", "string", "boolean", "double", "int", "float"})
        => /\ response.shape = "array"
           /\ Labels = (IF /\ context.className \in ClassNames
                            /\ ClassNamed(context.className).constructors # << >>
                         THEN <<context.className>> ELSE << >>)
                        \o Returning(context.className, 1)
           /\ \A i \in 1..Len(response.items) :
                 /\ response.items[i].preselect
                 /\ response.items[i].sortText[1] = "!"
    /\ (Completed /\ context.type \in {"identifier", "member-access", "method-access"})
        => \A i \in 1..Len(response.items) :
              /\ response.items[i].sortText[1] = "~"
              /\ CharCode["!"] < CharCode[response.items[i].sortText[1]]

C15_Witness ==
    /\ Completed
    /\ TextBeforeCursor = <<"G", "(">>
    /\ context.type = "function-parameter"
    /\ context.className = "A"
    /\ Labels = <<"A", "G">>
    /\ Kinds = <<"Class", "Function">>
    /\ response.items[1].preselect /\ response.items[2].preselect

(* The call under the cursor: its target is the word before the innermost *)
(* open parenthesis, its argument index the number of commas after it.     *)
CallTarget == TextBeforeCursor[InnermostOpen(TextBeforeCursor) - 1]

ArgumentIndex ==
    Count(TextBeforeCursor, InnermostOpen(TextBeforeCursor) + 1, Len(TextBeforeCursor), ",")

FunctionNamed(name) ==
    CHOOSE fn \in {LoadedFunctions[i] : i \in 1..Len(LoadedFunctions)} : fn.name = name

(* The target is a global function with a signature that has a parameter   *)
(* at the argument index, and the request is classified by its call.       *)
FunctionSlot ==
    /\ Completed
    /\ context.type \in {"function-parameter", "identifier"}
    /\ InnermostOpen(TextBeforeCursor) > 1
    /\ \E i \in 1..Len(LoadedFunctions) :
          LoadedFunctions[i].name = CallTarget /\ LoadedFunctions[i].signature # << >>
    /\ ArgumentIndex < Len(FunctionNamed(CallTarget).signature[1].parameters)

(* C16: the expected type of the slot of a global function is read from    *)
(* its signature label, the label of the parameter and the documentation   *)
(* of the parameter, in this order, as for a constructor.                  *)
C16_ThreeSourcesForEveryTarget ==
    (/\ FunctionSlot
     /\ constructorParameterType(FunctionNamed(CallTarget).signature[1], ArgumentIndex) # null)
        => /\ context.type = "function-parameter"
           /\ context.className =
                constructorParameterType(FunctionNamed(CallTarget).signature[1], ArgumentIndex)

(* The word after the first colon of a text, null when there is none. *)
AfterColon(text) ==
    LET at == {i \in 1..(Len(text) - 1) :
                 /\ text[i] = ":"
                 /\ \/ IsWord(text[i + 1])
                    \/ text[i + 1] = "sp" /\ i + 2 <= Len(text) /\ IsWord(text[i + 2])}
        first == CHOOSE i \in at : \A j \in at : i <= j
    IN IF at = {} THEN null
       ELSE IF text[first + 1] = "sp" THEN text[first + 2] ELSE text[first + 1]

(* C16, as the code has it: for a constructor the expected type is read    *)
(* from the constructor label at the argument index, else from the label   *)
(* of the parameter, else from a capitalized word or primitive name in its *)
(* documentation; for a global function it is the word after the first     *)
(* colon of the documentation of the parameter and nothing else, and a     *)
(* function without it is not the target of a call-argument slot.          *)
C16_SourcesByTarget ==
    /\ FunctionSlot =>
          LET documentation ==
                  FunctionNamed(CallTarget).signature[1].parameters[ArgumentIndex + 1].documentation
          IN IF AfterColon(documentation) # null
             THEN /\ context.type = "function-parameter"
                  /\ context.className = AfterColon(documentation)
             ELSE context.functionName # CallTarget \/ CallTarget \in ClassNames
    /\ (Completed /\ TextBeforeCursor = <<"D", "(">>) => context.type = "identifier"
    /\ (Completed /\ TextBeforeCursor = <<"B", "(", "1", ",", "sp">>)
          => context.type = "function-parameter" /\ context.className = "A"
    /\ (Completed /\ TextBeforeCursor = <<"B", "(", "1", ",", "sp", "1", ",", "sp">>)
          => context.type = "function-parameter" /\ context.className = "D"
    /\ (Completed /\ TextBeforeCursor = <<"B", "(", "1", ",", "sp", "1", ",", "sp", "1", ",", "sp">>)
          => context.type = "function-parameter" /\ context.className = "D"

C16_Witness ==
    /\ FunctionSlot
    /\ TextBeforeCursor = <<"D", "(">>
    /\ AfterColon(FunctionNamed("D").signature[1].parameters[1].documentation) = null
    /\ context.type = "identifier"

(* The target is class B, whose constructors have 1, 3 and 4 parameters,   *)
(* and the request is classified by its call.                              *)
ConstructorSlot ==
    /\ Completed
    /\ context.type \in {"function-parameter", "identifier"}
    /\ InnermostOpen(TextBeforeCursor) > 1
    /\ CallTarget = "B"

(* C17: the constructor of a slot is the first declared one with more      *)
(* parameters than the argument index, and the first declared one when     *)
(* there is none.  For B: index 0 is typed by B(a: A); indexes 1 and 2 by   *)
(* B(k, a: A, d), not by B(k, a, d, e), which gives no type at index 1 and  *)
(* none at index 2; index 3 by B(k, a, d, e); index 4 falls to B(a: A),     *)
(* which has no such parameter, and the request is served as an identifier *)
(* request.  No request fails.                                             *)
C17_ConstructorSelection ==
    /\ ConstructorSlot =>
          /\ ArgumentIndex \in {0, 1} =>
                /\ context.type = "function-parameter" /\ context.className = "A"
                /\ context.parameterIndex = ArgumentIndex
          /\ ArgumentIndex \in {2, 3} =>
                /\ context.type = "function-parameter" /\ context.className = "D"
                /\ context.parameterIndex = ArgumentIndex
          /\ ArgumentIndex >= 4 =>
                /\ context.type = "identifier"
                /\ response.shape = "array" /\ Len(response.items) > 0
    /\ (Completed /\ InnermostOpen(TextBeforeCursor) > 1 /\ CallTarget \in ClassNames)
          => context.type # RangeError /\ response.shape # "thrown"

C17_Witness ==
    /\ ConstructorSlot
    /\ ArgumentIndex = 4
    /\ context.type = "identifier"
    /\ response.shape = "array"

(* The insert text of the candidate of a class: the snippet of its first   *)
(* declared constructor, none for a class without constructors.            *)
ConstructorSnippet(cls) ==
    IF cls.constructors = << >> THEN << >>
    ELSE << [snippet |-> TRUE, name |-> <<cls.name>>,
             placeholders |-> [k \in 1..Len(cls.constructors[1].parameters) |->
                                 cls.constructors[1].parameters[k].label]] >>

(* C18: the list of the identifier context is one candidate per global     *)
(* function and then one per class, in catalog order; the candidate of a   *)
(* class inserts the snippet of its first declared constructor, or nothing *)
(* when the class has no constructor; no candidate is preselected.         *)
C18_IdentifierList ==
    (Completed /\ context.type = "identifier") =>
        /\ response.shape = "array"
        /\ Labels = Names(LoadedFunctions) \o Names(LoadedClasses)
        /\ Labels = <<"F", "G", "H", "D", "A", "B", "D", "E">>
        /\ \A i \in 1..Len(Kinds) :
              /\ Kinds[i] = (IF i <= Len(LoadedFunctions) THEN "Function" ELSE "Class")
              /\ ~response.items[i].preselect
        /\ \A j \in 1..Len(LoadedClasses) :
              response.items[Len(LoadedFunctions) + j].insertText
                = ConstructorSnippet(LoadedClasses[j])
        /\ response.items[6].insertText[1].placeholders = << <<"a">> >>
        /\ response.items[7].insertText = << >>

C18_Witness ==
    /\ Completed
    /\ TextBeforeCursor = <<"z", "(">>
    /\ context.type = "identifier"
    /\ Len(response.items) = 8
    /\ response.items[5].insertText[1].placeholders = << <<"x">>, <<"y">> >>

(* The word of a hover request: the cursor is at the end of its line. *)
Hovered == request.kind = "hover"

HoverWord ==
    LET text == lineAt(document, request.line)
    IN IF Len(text) > 0 /\ IsWord(text[Len(text)]) THEN text[Len(text)] ELSE ""

(* The classes that have a method, a property or a constant of that name. *)
ClassesWith(word) ==
    {j \in 1..Len(LoadedClasses) :
       \E kind \in {"methods", "properties", "constants"} :
          \E k \in 1..Len(LoadedClasses[j][kind]) : LoadedClasses[j][kind][k].name = word}

HasNamed(entries, word) == \E k \in 1..Len(entries) : entries[k].name = word

(* C19: a hover is that of the global function of exactly that name, else  *)
(* of the class of that name, else of the first class in catalog order     *)
(* with a member of that name: its method, else its property, else its     *)
(* constant.  Its heading holds the name.  There is no hover exactly when   *)
(* the word names no function, class or member; names differ by case.      *)
C19_HoverLookup ==
    Hovered =>
        LET word == HoverWord
            first == CHOOSE j \in ClassesWith(word) : \A k \in ClassesWith(word) : j <= k
            cls == LoadedClasses[first]
            hover == response.items[1]
        IN /\ (response.items = << >>)
                <=> (/\ ~HasNamed(LoadedFunctions, word)
                     /\ word \notin ClassNames
                     /\ ClassesWith(word) = {})
           /\ response.items # << >> =>
                /\ Len(response.items) = 1
                /\ Mentions(hover.heading, word)
                /\ IF HasNamed(LoadedFunctions, word)
                   THEN hover.kind = "function" /\ hover.heading = <<word>>
                   ELSE IF word \in ClassNames
                   THEN hover.kind = "class" /\ hover.heading = <<word>>
                   ELSE IF HasNamed(cls.methods, word)
                   THEN hover.kind = "method" /\ hover.heading = <<cls.name, ":", word>>
                   ELSE IF HasNamed(cls.properties, word)
                   THEN hover.kind = "property" /\ hover.heading = <<cls.name, ".", word>>
                   ELSE hover.kind = "constant" /\ hover.heading = <<cls.name, ".", word>>
           /\ word = "D" => hover.kind = "function"
           /\ word = "R" => hover.kind = "method" /\ hover.heading = <<"B", ":", "R">>
           /\ word = "P" => hover.kind = "property" /\ hover.heading = <<"A", ".", "P">>
           /\ word = "T" => hover.kind = "property" /\ hover.heading = <<"B", ".", "T">>
           /\ word = "K1" => hover.kind = "constant"
           /\ word = "k1" => response.items = << >>

C19_Witness ==
    /\ Hovered
    /\ HoverWord = "R"
    /\ response.items[1].kind = "method"
    /\ response.items[1].heading = <<"B", ":", "R">>

(* A signature-help request, and one with the cursor in the argument list *)
(* of a call of a name.                                                    *)
SignatureHelped == request.kind = "signatureHelp"

SignatureHelpedInCall ==
    /\ SignatureHelped
    /\ InnermostOpen(TextBeforeCursor) > 1
    /\ IsWord(CallTarget)

Query == request.line

Binding == request.line - 1

BindingLine == lineAt(document, Binding)

(* The type inferred for x when the line above the query is not read. *)
WithoutBinding == IF Binding = 0 THEN null ELSE Infer(Binding - 1, "x")

(* The type hint of the property a class declares itself, << >> if none. *)
TypeHint(class, property) ==
    IF class \in ClassNames /\ HasNamed(ClassNamed(class).properties, property)
    THEN LET properties == ClassNamed(class).properties
             k == CHOOSE i \in 1..Len(properties) :
                    properties[i].name = property
                    /\ \A j \in 1..(i - 1) : properties[j].name # property
         IN properties[k].detail
    ELSE << >>

(* C21: after 'x = y.P' or 'local x = y.P', x has the type T when y infers *)
(* to a class that declares P with the type hint T, the name of a known    *)
(* class; when y is unresolved, P is not declared by that class or its     *)
(* hint is no class name, the line gives x no type.                        *)
C21_PropertyChain ==
    (Completed /\ Query > 0) =>
        \A property \in {"P", "Q", "Z"} :
            BindingLine \in {PropertyLine("y", property), Local(PropertyLine("y", property))} =>
                LET hint == TypeHint(Infer(Binding, "y"), property)
                IN /\ Infer(Query, "x") =
                        IF Len(hint) = 1 /\ hint[1] \in ClassNames THEN hint[1] ELSE WithoutBinding
                   /\ (document[1] = LocalY("A") /\ Binding = 1) =>
                        Infer(Query, "x") = IF property = "P" THEN "B" ELSE null
                   /\ (document[1] = LocalY("D") /\ Binding = 1) => Infer(Query, "x") = null

C21_Witness ==
    /\ Completed
    /\ document = <<LocalY("A"), Local(PropertyLine("y", "P")), <<"x", ".">> >>
    /\ context.className = "B"
    /\ Len(response.items) = 3

(* The first of the comma-separated return types that the first entry of *)
(* that name declares, "" when there is no such entry, it has no          *)
(* signature or it declares no return type.                                *)
FirstSlot(entries, name) ==
    IF \E i \in 1..Len(entries) : entries[i].name = name
    THEN LET k == CHOOSE i \in 1..Len(entries) :
                    entries[i].name = name /\ \A j \in 1..(i - 1) : entries[j].name # name
         IN IF entries[k].signature = << >> \/ entries[k].signature[1].returns = << >> THEN ""
            ELSE entries[k].signature[1].returns[1]
    ELSE ""

MethodsOf(class) == IF class \in ClassNames THEN ClassNamed(class).methods ELSE << >>

NoMatchResponse == provideCompletionItems(<< <<"z", ".">> >>, 0, 2, classes, globalFunctions)

(* C23: the response to a request in keyword context differs from the      *)
(* response to a request that found no matches.                            *)
C23_KeywordResultDistinct ==
    (Completed /\ context.type = "keyword") => response # NoMatchResponse

(* C23 as the handler behaves: the response in keyword context is the      *)
(* empty array, the very value returned for a member or method access on   *)
(* an identifier that resolves to no class; the response that differs from *)
(* it is the empty CompletionList of a call argument of primitive type.    *)
C23_KeywordResultIsEmptyArray ==
    Completed =>
        /\ context.type = "keyword" =>
              response = Result("array", << >>) /\ response = NoMatchResponse
        /\ (context.type \in {"member-access", "method-access"}
             /\ context.className \notin ClassNames) =>
              response = Result("array", << >>)
        /\ (context.type = "function-parameter"
             /\ toLowerCase(context.className) \in {"number", "string", "boolean"}) =>
              /\ response.shape = "list" /\ response.items = << >>
              /\ response # NoMatchResponse

C23_Witness ==
    /\ Completed
    /\ TextBeforeCursor = <<"x", ".", "end">>
    /\ context.type = "keyword"
    /\ response = Result("array", << >>)
    /\ NoMatchResponse = Result("array", << >>)

(* C24: the function H, which has no signature, fails no request: the     *)
(* identifier list has an item for it without insert text, signature help  *)
(* has no signature for it, a call of it gives no call-argument slot, a    *)
(* variable bound to its result has no type, and its hover has no          *)
(* signature section.                                                      *)
C24_FunctionWithoutSignature ==
    /\ FunctionNamed("H").signature = << >>
    /\ response.shape # "thrown"
    /\ (Completed /\ context.type = "identifier") =>
          \E n \in 1..Len(response.items) :
              /\ response.items[n].label = "H"
              /\ response.items[n].kind = "Function"
              /\ response.items[n].insertText = << >>
    /\ SignatureHelped =>
          \A n \in 1..Len(response.items[1].signatures) :
              /\ response.items[1].signatures[n].label # << >>
              /\ response.items[1].signatures[n].label[1] # "H"
    /\ (Completed /\ Len(TextBeforeCursor) > 1
         /\ SubSeq(TextBeforeCursor, Len(TextBeforeCursor) - 1, Len(TextBeforeCursor)) = <<"H", "(">>) =>
          context.type = "identifier" /\ Len(response.items) = 8
    /\ (Completed /\ TextBeforeCursor = <<"x", "sp", "=", "sp", "H", "(", ")", ";", "sp", "x", ".">>) =>
          /\ context.type = "member-access"
          /\ IF document[1] = LocalXA
             THEN Infer(request.line, "x") = "A" /\ context.className = "A"
             ELSE /\ Infer(request.line, "x") = null
                  /\ context.className = "x"
                  /\ response = Result("array", << >>)
    /\ (Completed /\ TextBeforeCursor = <<"x", "sp", "=", "sp", "F", "(", "k", ")", ";", "sp", "x", ".">>) =>
          context.className = "B"
    /\ (Hovered /\ HoverWord = "H") =>
          response.items = << [kind |-> "function", heading |-> <<"H">>, signature |-> << >>] >>

C24_Witness ==
    /\ Hovered
    /\ HoverWord = "H"
    /\ response.items[1].kind = "function"
    /\ response.items[1].signature = << >>

(* Line n has the form of a binding of x and gives no known class: the    *)
(* property is undeclared or not of a class type, the callable unknown or  *)
(* without a known return type, or the object y has no binding above.      *)
Unresolved(n) ==
    \/ lineAt(document, n) \in {PropertyLine("y", "Q"), PropertyLine("y", "Z"),
                                 FunctionLine("H"), FunctionLine("z"),
                                 MethodLine("y", "N"), MethodLine("y", "Z")}
    \/ /\ lineAt(document, n) \in {PropertyLine("y", "P"), Local(PropertyLine("y", "P")),
                                    MethodLine("y", "M"), Local(FirstOfTwo(MethodLine("y", "M")))}
       /\ \A a \in 0..(n - 1) : lineAt(document, a) \notin {LocalY("A"), LocalY("D")}

(* C25: lines of the form of a binding of x that give no known class do    *)
(* not end the search: the type of x is the one the nearest line above     *)
(* them gives, null when there is no line above.                           *)
C25_UnresolvedLinePassed ==
    (Completed /\ Query > 0) =>
        /\ \A b \in 0..Binding :
              (\A n \in b..Binding : Unresolved(n)) =>
                  Infer(Query, "x") = IF b = 0 THEN null ELSE Infer(b - 1, "x")
        /\ (Query = 3 /\ document[1] = LocalY("A") /\ document[2] = PropertyLine("y", "P")
             /\ Unresolved(2)) => Infer(Query, "x") = "B"
        /\ (Query = 3 /\ document[1] = LocalXA /\ Unresolved(1) /\ Unresolved(2)) =>
              Infer(Query, "x") = "A"

C25_Witness ==
    /\ Completed
    /\ document = <<LocalY("A"), PropertyLine("y", "P"), FunctionLine("z"), <<"x", ".">> >>
    /\ Unresolved(2)
    /\ context.className = "B"

(* C26: when the line above the query binds x as the second name, in     *)
(* 'local w, x = F(k)' or 'w, x = y:M(k)', x has no type, also when a line *)
(* above it is 'local x = A()'.                                            *)
C26_SecondSlotUntyped ==
    (/\ Completed /\ Query > 0
     /\ BindingLine \in {Local(SecondOfTwo(FunctionLine("F"))), SecondOfTwo(MethodLine("y", "M"))})
    => Infer(Query, "x") = null

(* The search made for the query line alone on a buffer. *)
InferOn(text, varName) ==
    inferVariableType(text, Query, varName, classes, globalFunctions, 0)

(* The lines the loop of the search from line n runs over. *)
Window(n) == searchStart(n)..n

(* The buffer with every line outside 'keep' blank. *)
Masked(text, keep) ==
    [i \in 1..Len(text) |-> IF (i - 1) \in keep THEN text[i] ELSE BlankLine]

(* The lines within the window of the query line that bind x through y. *)
StepLines ==
    {c \in Window(Query) :
        lineAt(document, c) \in {PropertyLine("y", "P"), MethodLine("y", "M")}}

(* The window of the query line and the window of each of its step lines. *)
Reach == Window(Query) \cup UNION {Window(c) : c \in StepLines}

(* C27: the type inferred at the query line depends only on the query     *)
(* line and the 100 lines before it: the buffer with every other line      *)
(* blank, and the buffer with a binding added after the query line, give   *)
(* the same type for x and for y.                                          *)
C27_WindowOnly ==
    Completed =>
        \A v \in {"x", "y"} :
            /\ InferOn(Masked(document, Window(Query)), v) = Infer(Query, v)
            /\ InferOn(Append(document, AssignXB), v) = Infer(Query, v)

(* C27 as the code has it: the type depends only on the window of the     *)
(* query line and, for a line in it that binds x through y, on the window  *)
(* of 100 lines before that line, so on up to 200 lines before the query   *)
(* line; lines after the query line never matter.                          *)
C27_WindowOfEachStep ==
    Completed =>
        /\ \A v \in {"x", "y"} :
              /\ InferOn(Masked(document, Reach), v) = Infer(Query, v)
              /\ InferOn(Append(document, AssignXB), v) = Infer(Query, v)
        /\ Infer(Query, "y") = InferOn(Masked(document, Window(Query)), "y")
        /\ (/\ Query = 2 * SearchWindow
            /\ document[1] = LocalY("A")
            /\ document[SearchWindow + 1] = PropertyLine("y", "P")) => Infer(Query, "x") = "B"
        /\ (/\ Query = 2 * SearchWindow + 1
            /\ document[1] = LocalY("A")
            /\ document[SearchWindow + 2] = PropertyLine("y", "P")) => Infer(Query, "x") = null

C27_Witness ==
    /\ Completed
    /\ Query = 2 * SearchWindow
    /\ document[1] = LocalY("A")
    /\ document[SearchWindow + 1] = PropertyLine("y", "P")
    /\ Infer(Query, "y") = null
    /\ context.className = "B"

(* The known classes that a class of the lineage gives as the type hint of *)
(* a property of that name, and as the first return type of a method of    *)
(* that name.                                                              *)
HintsAlong(lineage, property) ==
    UNION {{lineage[i].properties[k].detail[1] :
              k \in {k \in 1..Len(lineage[i].properties) :
                       /\ lineage[i].properties[k].name = property
                       /\ Len(lineage[i].properties[k].detail) = 1}} :
           i \in 1..Len(lineage)} \cap ClassNames

ReturnsAlong(lineage, method) ==
    {FirstSlot(lineage[i].methods, method) : i \in 1..Len(lineage)} \cap ClassNames

Offered(label, kind) == \E i \in 1..Len(Labels) : Labels[i] = label /\ Kinds[i] = kind

(* C28: when the list for 'y.' offers a property whose type hint is a      *)
(* known class T, x has the type T after 'x = y.P'; when the list for 'y:' *)
(* offers a method whose first return type is a known class T, x has the   *)
(* type T after 'x = y:M(k)'; also for members that y inherits.            *)
C28_ChainAgreesWithCompletion ==
    (/\ Completed /\ Query > 0
     /\ context.objectName = "y"
     /\ context.className \in ClassNames)
    => LET lineage == Lineage(ClassNamed(context.className))
       IN /\ context.type = "member-access" =>
               \A property \in {"P", "Q", "Z"} : \A T \in HintsAlong(lineage, property) :
                   (/\ BindingLine \in {PropertyLine("y", property), Local(PropertyLine("y", property))}
                    /\ Offered(property, "Property"))
                   => Infer(Query, "x") = T
          /\ context.type = "method-access" =>
               \A method \in {"M", "N", "Z"} : \A T \in ReturnsAlong(lineage, method) :
                   (/\ BindingLine \in {MethodLine("y", method), Local(FirstOfTwo(MethodLine("y", method)))}
                    /\ Offered(method, "Method"))
                   => Infer(Query, "x") = T

(* The request is classified by the open call the cursor is in: neither   *)
(* the keyword guard nor an access applies.                                *)
ClassifiedByCall ==
    /\ Completed
    /\ context.type \in {"function-parameter", "identifier"}
    /\ InnermostOpen(TextBeforeCursor) > 0

(* The identifier directly before the open parenthesis, "" if none. *)
TargetName ==
    LET open == InnermostOpen(TextBeforeCursor)
    IN IF open > 1 /\ IsWord(TextBeforeCursor[open - 1]) THEN TextBeforeCursor[open - 1] ELSE ""

(* The expected types the catalog gives: F(k: number); G(a: A, k: number);  *)
(* A(x: number, y: number); B(a: A), B(k, a: A, d: D), B(k, a, d, e: D).     *)
(* H has no signature, the parameter of function D documents no type and   *)
(* the classes D and E have no constructor.                                *)
SlotType(target, index) ==
    IF target = "F" /\ index = 0 THEN "number"
    ELSE IF target = "G" /\ index = 0 THEN "A"
    ELSE IF target = "G" /\ index = 1 THEN "number"
    ELSE IF target = "A" /\ index \in {0, 1} THEN "number"
    ELSE IF target = "B" /\ index \in {0, 1} THEN "A"
    ELSE IF target = "B" /\ index \in {2, 3} THEN "D"
    ELSE null

(* C29: inside an open call the request is a call-argument request exactly *)
(* when the identifier before the parenthesis is a global function or a    *)
(* class with constructors whose signature has a parameter at the argument *)
(* index with a type; otherwise (no identifier before the parenthesis, an  *)
(* unknown target as in o:M(, an index past the parameters, no type) it is *)
(* an identifier request and the list is every function and class.         *)
C29_CallArgumentOrIdentifier ==
    ClassifiedByCall =>
        LET type == SlotType(TargetName, ArgumentIndex)
        IN /\ IF type # null
              THEN /\ context.type = "function-parameter"
                   /\ context.className = type
                   /\ context.functionName = TargetName
                   /\ context.parameterIndex = ArgumentIndex
              ELSE /\ context.type = "identifier"
                   /\ Labels = <<"F", "G", "H", "D", "A", "B", "D", "E">>
           /\ context.type = "function-parameter" =>
                \/ HasNamed(LoadedFunctions, TargetName)
                   /\ FunctionNamed(TargetName).signature # << >>
                   /\ ArgumentIndex < Len(FunctionNamed(TargetName).signature[1].parameters)
                \/ TargetName \in ClassNames
                   /\ \E i \in 1..Len(ClassNamed(TargetName).constructors) :
                         ArgumentIndex < Len(ClassNamed(TargetName).constructors[i].parameters)

C29_Witness ==
    /\ ClassifiedByCall
    /\ TextBeforeCursor = <<"o", ":", "M", "(">>
    /\ TargetName = "M"
    /\ context.type = "identifier"
    /\ Len(response.items) = 8

(* C30: a member-access or method-access request on a class of the       *)
(* catalog returns a list, also when the 'extends' declarations of the     *)
(* catalog form a cycle.                                                   *)
C30_InheritanceTerminates ==
    (/\ Completed
     /\ context.type \in {"member-access", "method-access"}
     /\ context.className \in ClassNames)
    => response.shape = "array"

====
